---- MODULE Spec2Model ----
\* Model of the baton-bitbucket connector: composite identifiers, the page-token
\* cursor, the paginated List / Grants walks and the Grant / Revoke mutators.
\*
\* Strings are sequences of atoms.  The atom ":" is the separator character; every
\* other atom stands for a separator-free piece of text.  The empty string is <<>>.
EXTENDS Integers, Sequences, FiniteSets, TLC

VARIABLES
    pageSize,      \* connector.ResourcesPageSize
    up,            \* state of the upstream API (collections served by the list endpoints)
    scope,         \* Client.scope
    workspaceIDs,  \* Client.workspaceIDs
    allow,         \* Bitbucket.workspaces / workspaceResourceType.workspaces (slugs)
    walk,          \* the caller's enumeration in progress (token fed back call after call)
    hist,          \* first answer the connector gave for each token of the current walk
    last,          \* the last handler call: its input token and everything it returned
                   \* (for Validate: the workspace ids the client held before it)
    perms,         \* upstream permission / membership state written by Grant and Revoke
    ids,           \* strings under test for the identifier functions
    cfg            \* the configuration handed to the command and how far it got

vars == <<pageSize, up, scope, workspaceIDs, allow, walk, hist, last, perms, ids, cfg>>

-----------------------------------------------------------------------------
\* Bounds of the model.

MaxPageSize == 2
MaxRecs == 2
MaxIdLen == 2
MaxSegments == 5
MaxOps == 2

-----------------------------------------------------------------------------
\* Strings.

Sep == ":"

\* the pieces of s between occurrences of sep, read left to right: acc holds the
\* pieces already closed, cur the piece being read
RECURSIVE SplitFrom(_, _, _, _)
SplitFrom(s, sep, cur, acc) ==
    IF Len(s) = 0 THEN Append(acc, cur)
    ELSE IF Head(s) = sep THEN SplitFrom(Tail(s), sep, <<>>, Append(acc, cur))
    ELSE SplitFrom(Tail(s), sep, Append(cur, Head(s)), acc)

Split(s) == SplitFrom(s, Sep, <<>>, <<>>)

RECURSIVE Join(_)
Join(parts) ==
    IF Len(parts) = 0 THEN <<>>
    ELSE IF Len(parts) = 1 THEN parts[1]
    ELSE parts[1] \o <<Sep>> \o Join(Tail(parts))

\* strings.Join(ids, ",") and strings.Split(s, ",") of the group profile
Comma == ","

RECURSIVE JoinComma(_)
JoinComma(parts) ==
    IF Len(parts) = 0 THEN <<>>
    ELSE IF Len(parts) = 1 THEN parts[1]
    ELSE parts[1] \o <<Comma>> \o JoinComma(Tail(parts))

SplitComma(s) == SplitFrom(s, Comma, <<>>, <<>>)

Last(s) == s[Len(s)]
Front(s) == SubSeq(s, 1, Len(s) - 1)

\* mutant: every value is taken to be in the list
contains_Always(payload, values) == TRUE

RECURSIVE contains(_, _)
contains(payload, values) ==
    IF Len(values) = 0 THEN FALSE
    ELSE IF payload = Head(values) THEN TRUE
    ELSE contains(payload, Tail(values))

-----------------------------------------------------------------------------
\* Resource types and role vocabularies.

resourceTypeWorkspace == "workspace"
resourceTypeProject == "project"
resourceTypeUserGroup == "user_group"
resourceTypeUser == "user"
resourceTypeRepository == "repository"

repoEntitlement == <<"repository">>
memberEntitlement == <<"member">>
roleRead == <<"read">>
roleWrite == <<"write">>
roleCreate == <<"create-repo">>
roleAdmin == <<"admin">>
roleNone == <<"none">>

projectPermissions == <<roleRead, roleWrite, roleCreate, roleAdmin>>
repositoryRoles == <<roleRead, roleWrite, roleAdmin>>

-----------------------------------------------------------------------------
\* Composite identifiers.

ComposeProjectId(workspaceId, projectId, key) ==
    workspaceId \o <<Sep>> \o projectId \o <<Sep>> \o key

DecomposeProjectId(id) ==
    LET parts == Split(id) IN
    IF Len(parts) # 3
    THEN [err |-> "invalid_project_id", ws |-> <<>>, pid |-> <<>>, key |-> <<>>]
    ELSE [err |-> "", ws |-> parts[1], pid |-> parts[2], key |-> parts[3]]

ComposeRepositoryId(projectId, repositoryId) ==
    projectId \o <<Sep>> \o repositoryId

\* mutant: the project id is taken to be the first segment
DecomposeRepositoryId_FirstSegment(repositoryId) ==
    LET parts == Split(repositoryId) IN
    IF Len(parts) < 3
    THEN [err |-> "invalid_repository_id", project |-> <<>>, repo |-> <<>>]
    ELSE [err |-> "", project |-> parts[1], repo |-> Last(parts)]

DecomposeRepositoryId(repositoryId) ==
    LET parts == Split(repositoryId) IN
    IF Len(parts) < 3
    THEN [err |-> "invalid_repository_id", project |-> <<>>, repo |-> <<>>]
    ELSE LET projectId == Join(Front(parts)) IN
         IF DecomposeProjectId(projectId).err # ""
         THEN [err |-> "invalid_repository_id", project |-> <<>>, repo |-> <<>>]
         ELSE [err |-> "", project |-> projectId, repo |-> Last(parts)]

ComposedGroupId(workspaceId, groupSlug) ==
    workspaceId \o <<Sep>> \o groupSlug

DecomposeGroupId(id) ==
    LET parts == Split(id) IN
    IF Len(parts) # 2
    THEN [err |-> "invalid_group_id", ws |-> <<>>, slug |-> <<>>]
    ELSE [err |-> "", ws |-> parts[1], slug |-> parts[2]]

ParseEntitlementID(id) ==
    LET parts == Split(id) IN
    IF Len(parts) < 4
    THEN [err |-> "invalid_resource_id", type |-> <<>>, resource |-> <<>>, slug |-> <<>>]
    ELSE [err |-> "", type |-> parts[1],
          resource |-> Join(SubSeq(parts, 2, Len(parts) - 1)),
          slug |-> Last(parts)]

-----------------------------------------------------------------------------
\* The page-token cursor (pagination.Bag of the SDK): a stack of frames whose top
\* is the current frame.  A token is the empty string, a serialized bag, or text
\* that does not decode.

EmptyBag == [states |-> <<>>, cur |-> <<>>]
EmptyToken == [kind |-> "empty", bag |-> EmptyBag]
CorruptToken == [kind |-> "corrupt", bag |-> EmptyBag]

PageState(rt, rid, tok) == [ResourceTypeID |-> rt, ResourceID |-> rid, Token |-> tok]

BagUnmarshal(t) ==
    [err |-> IF t.kind = "corrupt" THEN "invalid_token" ELSE "",
     bag |-> IF t.kind = "json" THEN t.bag ELSE EmptyBag]

BagMarshal(b) ==
    IF Len(b.cur) = 0 THEN EmptyToken ELSE [kind |-> "json", bag |-> b]

BagPush(b, st) ==
    IF Len(b.cur) = 0 THEN [states |-> b.states, cur |-> <<st>>]
    ELSE [states |-> Append(b.states, b.cur[1]), cur |-> <<st>>]

BagPop(b) ==
    IF Len(b.cur) = 0 THEN b
    ELSE IF Len(b.states) > 0
         THEN [states |-> Front(b.states), cur |-> <<Last(b.states)>>]
         ELSE EmptyBag

BagResourceTypeID(b) == IF Len(b.cur) = 0 THEN "" ELSE b.cur[1].ResourceTypeID
BagPageToken(b) == IF Len(b.cur) = 0 THEN <<>> ELSE b.cur[1].Token

\* advance: drop the current frame and, unless the phase is exhausted, push it
\* back with the new upstream cursor.
BagNext(b, pageToken) ==
    IF Len(b.cur) = 0 THEN [err |-> "no_active_page_state", bag |-> b]
    ELSE IF Len(pageToken) = 0 THEN [err |-> "", bag |-> BagPop(b)]
    ELSE [err |-> "",
          bag |-> BagPush(BagPop(b), [b.cur[1] EXCEPT !.Token = pageToken])]

BagNextToken(b, pageToken) ==
    LET n == BagNext(b, pageToken) IN
    [err |-> n.err, token |-> IF n.err = "" THEN BagMarshal(n.bag) ELSE EmptyToken]

BagDepth(b) == Len(b.states) + Len(b.cur)

\* mutant: the cursor is taken from where the running enumeration stands, not from
\* the token of the call
parsePageToken_FromSession(i, rt, rid) ==
    LET u == BagUnmarshal(walk.token) IN
    IF u.err # "" THEN u
    ELSE IF Len(u.bag.cur) = 0
         THEN [err |-> "", bag |-> BagPush(u.bag, PageState(rt, rid, <<>>))]
         ELSE u

\* mutant: a token that does not decode is read as the empty token
parsePageToken_Lenient(i, rt, rid) ==
    LET u == BagUnmarshal(i) IN
    IF u.err # "" \/ Len(u.bag.cur) = 0
    THEN [err |-> "", bag |-> BagPush(EmptyBag, PageState(rt, rid, <<>>))]
    ELSE u

parsePageToken(i, rt, rid) ==
    LET u == BagUnmarshal(i) IN
    IF u.err # "" THEN u
    ELSE IF Len(u.bag.cur) = 0
         THEN [err |-> "", bag |-> BagPush(u.bag, PageState(rt, rid, <<>>))]
         ELSE u

-----------------------------------------------------------------------------
\* The upstream API.  A list endpoint serves a collection page by page: `pagelen`
\* records per page, the page chosen by the `page` query parameter (absent = first),
\* and a `next` URL while records remain.

Names == <<"1", "2", "3", "4", "5", "6">>

WorkspaceRec(i) == [Id |-> <<"w", Names[i]>>, Slug |-> <<"s", Names[i]>>]
W1 == WorkspaceRec(1).Id
ProjectRec(i) == [Id |-> <<"p", Names[i]>>, Key |-> <<"K", Names[i]>>]
RepositoryRec(i) == [Id |-> <<"r", Names[i]>>]
UserRec(i) == [Id |-> <<"u", Names[i]>>]
GroupRec(i) == [Slug |-> <<"g", Names[i]>>, Members |-> <<UserRec(i)>>]

TheProject == ProjectRec(1)
TheRepository == RepositoryRec(1)

PaginationVars(limit, page) == [Limit |-> limit, Page |-> page]

NextURL(n) == <<"https://api.bitbucket.org/2.0/", "?page=", n>>

UpstreamList(coll, v) ==
    LET n == IF Len(v.Page) = 0 THEN 1 ELSE v.Page[1]
        lo == (n - 1) * v.Limit + 1
        hi == IF n * v.Limit < Len(coll) THEN n * v.Limit ELSE Len(coll)
    IN  [Values |-> SubSeq(coll, lo, hi),
         Next |-> IF n * v.Limit < Len(coll) THEN NextURL(n + 1) ELSE <<>>]

\* mutant: the page number is not found in the URL
ParsePageFromURL_Blank(urlPayload) == <<>>

ParsePageFromURL(urlPayload) ==
    IF Len(urlPayload) = 0 THEN <<>> ELSE <<urlPayload[3]>>

\* mutant: the next-page link of the response is dropped
HandlePagination_NoNext(response, err) ==
    IF err # "" THEN [values |-> <<>>, next |-> <<>>, err |-> err]
    ELSE [values |-> response.Values, next |-> <<>>, err |-> ""]

HandlePagination(response, err) ==
    IF err # "" THEN [values |-> <<>>, next |-> <<>>, err |-> err]
    ELSE [values |-> response.Values,
          next |-> IF Len(response.Next) # 0 THEN ParsePageFromURL(response.Next)
                   ELSE <<>>,
          err |-> ""]

\* outcome of one GET: the injected failure, an unknown path, or success
GetErr(fail, known) ==
    IF fail THEN "upstream" ELSE IF ~known THEN "not_found" ELSE ""

GetWorkspaceProjects(workspaceId, v, fail) ==
    HandlePagination(UpstreamList(up.projects, v), GetErr(fail, workspaceId = W1))

GetProjectRepos(workspaceId, projectId, v, fail) ==
    HandlePagination(UpstreamList(up.repos, v),
                     GetErr(fail, workspaceId = W1 /\ projectId = TheProject.Id))

GetWorkspaceMembers(workspaceId, v, fail) ==
    HandlePagination(UpstreamList(up.members, v), GetErr(fail, workspaceId = W1))

Fetch(ep, v) == [ep |-> ep, page |-> v.Page, limit |-> v.Limit]

-----------------------------------------------------------------------------
\* Resources, and the answer of a List / Grants call.

Resource(type, id, parent) == [type |-> type, id |-> id, parent |-> parent]

projectResource(project, parentId) ==
    Resource(resourceTypeProject,
             ComposeProjectId(parentId, project.Id, project.Key), parentId)

repositoryResource(repository, parentId) ==
    Resource(resourceTypeRepository,
             ComposeRepositoryId(parentId, repository.Id), parentId)

userResource(user, parentId) == Resource(resourceTypeUser, user.Id, parentId)

userGroupResource(userGroup, parentId) ==
    Resource(resourceTypeUserGroup,
             ComposedGroupId(parentId, userGroup.Slug), parentId)

MapSeq(s, F(_)) == [i \in 1..Len(s) |-> F(s[i])]

Answer(res, next, fetch) == [res |-> res, next |-> next, err |-> "", fetch |-> fetch]
\* a handler that drops the error of a failed page and answers with an empty page
Failure_Discarded(err, fetch) == [res |-> <<>>, next |-> EmptyToken, err |-> "", fetch |-> fetch]

Failure(err, fetch) == [res |-> <<>>, next |-> EmptyToken, err |-> err, fetch |-> fetch]

NoParent == [nil |-> TRUE, Resource |-> <<>>]
Parent(id) == [nil |-> FALSE, Resource |-> id]

-----------------------------------------------------------------------------
\* ResourceWalker: List of each resource type.

projectList(parentId, token, fail) ==
    IF parentId.nil THEN Answer(<<>>, EmptyToken, <<>>)
    ELSE
    LET p == parsePageToken(token, resourceTypeProject, <<>>) IN
    IF p.err # "" THEN Failure(p.err, <<>>)
    ELSE
    LET v == PaginationVars(pageSize, BagPageToken(p.bag))
        r == GetWorkspaceProjects(parentId.Resource, v, fail)
        f == <<Fetch("projects", v)>>
    IN
    IF r.err # "" THEN Failure(r.err, f)
    ELSE
    LET n == BagNextToken(p.bag, r.next) IN
    IF n.err # "" THEN Failure(n.err, f)
    ELSE Answer(MapSeq(r.values, LAMBDA x : projectResource(x, parentId.Resource)),
                n.token, f)

repositoryList(parentId, token, fail) ==
    IF parentId.nil THEN Answer(<<>>, EmptyToken, <<>>)
    ELSE
    LET p == parsePageToken(token, resourceTypeRepository, <<>>) IN
    IF p.err # "" THEN Failure(p.err, <<>>)
    ELSE
    LET d == DecomposeProjectId(parentId.Resource) IN
    IF d.err # "" THEN Failure(d.err, <<>>)
    ELSE
    LET v == PaginationVars(pageSize, BagPageToken(p.bag))
        r == GetProjectRepos(d.ws, d.pid, v, fail)
        f == <<Fetch("repos", v)>>
    IN
    IF r.err # "" THEN Failure(r.err, f)
    ELSE
    LET n == BagNextToken(p.bag, r.next) IN
    IF n.err # "" THEN Failure(n.err, f)
    ELSE Answer(MapSeq(r.values, LAMBDA x : repositoryResource(x, parentId.Resource)),
                n.token, f)

userList(parentId, token, fail) ==
    IF parentId.nil THEN Answer(<<>>, EmptyToken, <<>>)
    ELSE
    LET p == parsePageToken(token, resourceTypeUser, <<>>) IN
    IF p.err # "" THEN Failure(p.err, <<>>)
    ELSE
    LET v == PaginationVars(pageSize, BagPageToken(p.bag))
        r == GetWorkspaceMembers(parentId.Resource, v, fail)
        f == <<Fetch("members", v)>>
    IN
    IF r.err # "" THEN Failure(r.err, f)
    ELSE
    LET n == BagNextToken(p.bag, r.next) IN
    IF n.err # "" THEN Failure(n.err, f)
    ELSE Answer(MapSeq(r.values, LAMBDA x : userResource(x, parentId.Resource)),
                n.token, f)

-----------------------------------------------------------------------------
\* The client's scope and the permission probes.

NoScope == [kind |-> "none", id |-> <<>>]
SetupUserScope(userId) == [kind |-> "user", id |-> userId]
SetupWorkspaceScope(workspaceId) == [kind |-> "workspace", id |-> workspaceId]
IsUserScoped(sc) == sc.kind = "user"
IsWorkspaceScoped(sc) == sc.kind = "workspace"

WorkspaceId(sc) ==
    IF IsWorkspaceScoped(sc) THEN [err |-> "", id |-> sc.id]
    ELSE [err |-> "not_workspace_scoped", id |-> <<>>]

PageSizeDefault == 50

\* An upstream 403 reaches the connector either as a status error with the
\* PermissionDenied code ("denied") or as an unclassified error whose message holds
\* "status 403" ("status403"); "error" is any other failure.
\* mutant: only the PermissionDenied status code counts, not the message
clientIsPermissionDeniedErr_CodeOnly(e) == e = "denied"

clientIsPermissionDeniedErr(e) == e \in {"denied", "status403"}
connectorIsPermissionDeniedErr(e) == e = "denied"

ProbeNames == <<"probe_user_groups", "probe_users", "probe_projects">>

\* the three probes of one workspace, in order; the probe up.probe names is the one
\* that fails
ProbeOf(workspaceId) ==
    LET hit == {i \in 1..Len(up.workspaces) : up.workspaces[i].Id = workspaceId} IN
    IF hit = {} THEN [kind |-> "error", at |-> 1]
    ELSE up.probe[CHOOSE i \in hit : TRUE]

ProbeFetches(workspaceId) ==
    LET o == ProbeOf(workspaceId)
        n == IF o.kind = "ok" THEN 3 ELSE o.at
    IN  [k \in 1..n |-> [ep |-> ProbeNames[k], page |-> <<>>, limit |-> 1,
                         ws |-> workspaceId]]

checkPermissions(workspace, IsDenied(_)) ==
    LET o == ProbeOf(workspace.Id) IN
    IF o.kind = "ok" THEN [has |-> TRUE, err |-> ""]
    ELSE IF IsDenied(o.kind) THEN [has |-> FALSE, err |-> ""]
    ELSE [has |-> FALSE, err |-> o.kind]

\* mutant: every workspace is included
shouldIncludeWorkspace_Always(workspaceIdentifiers, workspaceIdentifier) == TRUE

shouldIncludeWorkspace(workspaceIdentifiers, workspaceIdentifier) ==
    IF Cardinality(workspaceIdentifiers) = 0 THEN TRUE
    ELSE workspaceIdentifier \in workspaceIdentifiers

filterWorkspaces(wsIDs, workspaces) ==
    SelectSeq(workspaces, LAMBDA w : shouldIncludeWorkspace(wsIDs, w.Id))

GetWorkspaces(wsIDs, v, fail) ==
    IF fail THEN [values |-> <<>>, next |-> <<>>, err |-> "upstream"]
    ELSE LET r == UpstreamList(up.workspaces, v) IN
         HandlePagination([Values |-> filterWorkspaces(wsIDs, r.Values), Next |-> r.Next], "")

RECURSIVE GetAllWorkspacesFrom(_, _, _)
GetAllWorkspacesFrom(wsIDs, next, fail) ==
    LET v == PaginationVars(PageSizeDefault, next)
        r == GetWorkspaces(wsIDs, v, fail)
        f == <<Fetch("workspaces", v)>>
    IN
    IF r.err # "" THEN [err |-> r.err, values |-> <<>>, fetch |-> f]
    ELSE IF Len(r.next) = 0 THEN [err |-> "", values |-> r.values, fetch |-> f]
    ELSE LET rest == GetAllWorkspacesFrom(wsIDs, r.next, fail) IN
         IF rest.err # "" THEN [rest EXCEPT !.fetch = f \o @]
         ELSE [err |-> "", values |-> r.values \o rest.values,
               fetch |-> f \o rest.fetch]

GetAllWorkspaces(wsIDs, fail) == GetAllWorkspacesFrom(wsIDs, <<>>, fail)

GetWorkspace(workspaceId, fail) ==
    LET hit == {i \in 1..Len(up.workspaces) : up.workspaces[i].Id = workspaceId} IN
    IF fail THEN [err |-> "upstream", workspace |-> WorkspaceRec(1)]
    ELSE IF hit = {} THEN [err |-> "not_found", workspace |-> WorkspaceRec(1)]
    ELSE [err |-> "", workspace |-> up.workspaces[CHOOSE i \in hit : TRUE]]

GetCurrentUser(fail) ==
    [err |-> IF fail THEN "upstream" ELSE "", user |-> up.identity,
     fetch |-> <<[ep |-> "user", page |-> <<>>, limit |-> 0]>>]

\* mutant: a workspace whose probe fails is skipped, whatever the error
RECURSIVE ProbeLoop_SkipFailed(_, _, _)
ProbeLoop_SkipFailed(workspaces, wanted, acc) ==
    IF Len(workspaces) = 0 THEN [err |-> "", ids |-> acc, fetch |-> <<>>]
    ELSE LET w == Head(workspaces) IN
         IF ~shouldIncludeWorkspace(wanted, w.Slug)
         THEN ProbeLoop_SkipFailed(Tail(workspaces), wanted, acc)
         ELSE LET c == checkPermissions(w, clientIsPermissionDeniedErr)
                  rest == ProbeLoop_SkipFailed(Tail(workspaces), wanted,
                                               IF c.has THEN acc \cup {w.Id} ELSE acc)
              IN  [rest EXCEPT !.fetch = ProbeFetches(w.Id) \o @]

\* the probe loop of SetWorkspaceIDs: the ids added so far, the first fatal probe
\* error (which ends the loop) and the probe requests made
RECURSIVE ProbeLoop(_, _, _)
ProbeLoop(workspaces, wanted, acc) ==
    IF Len(workspaces) = 0 THEN [err |-> "", ids |-> acc, fetch |-> <<>>]
    ELSE LET w == Head(workspaces) IN
         IF ~shouldIncludeWorkspace(wanted, w.Slug)
         THEN ProbeLoop(Tail(workspaces), wanted, acc)
         ELSE LET c == checkPermissions(w, clientIsPermissionDeniedErr) IN
              IF c.err # ""
              THEN [err |-> c.err, ids |-> acc, fetch |-> ProbeFetches(w.Id)]
              ELSE LET rest == ProbeLoop(Tail(workspaces), wanted,
                                         IF c.has THEN acc \cup {w.Id} ELSE acc)
                   IN  [rest EXCEPT !.fetch = ProbeFetches(w.Id) \o @]

\* mutant: an empty result is returned as success
SetWorkspaceIDs_EmptyAccepted(sc, wsIDs, workspaceSlugs, fail) ==
    IF ~IsUserScoped(sc) THEN [err |-> "not_user_scoped", ids |-> wsIDs, fetch |-> <<>>]
    ELSE LET all == GetAllWorkspaces(wsIDs, fail) IN
         IF all.err # "" THEN [err |-> all.err, ids |-> wsIDs, fetch |-> all.fetch]
         ELSE LET l == ProbeLoop(all.values, workspaceSlugs, wsIDs) IN
              [l EXCEPT !.fetch = all.fetch \o @]

SetWorkspaceIDs(sc, wsIDs, workspaceSlugs, fail) ==
    IF ~IsUserScoped(sc) THEN [err |-> "not_user_scoped", ids |-> wsIDs, fetch |-> <<>>]
    ELSE LET all == GetAllWorkspaces(wsIDs, fail) IN
         IF all.err # "" THEN [err |-> all.err, ids |-> wsIDs, fetch |-> all.fetch]
         ELSE LET l == ProbeLoop(all.values, workspaceSlugs, wsIDs)
                  f == all.fetch \o l.fetch
              IN  IF l.err # "" THEN [l EXCEPT !.fetch = f]
                  ELSE IF Cardinality(l.ids) = 0
                       THEN [err |-> "no_authenticated_workspaces", ids |-> l.ids,
                             fetch |-> f]
                       ELSE [l EXCEPT !.fetch = f]

\* mutant: every identity is taken to be a user
setScope_AlwaysUser(sc, user) == [err |-> "", scope |-> SetupUserScope(user.Id)]

setScope(sc, user) ==
    IF user.Type = "user" THEN [err |-> "", scope |-> SetupUserScope(user.Id)]
    ELSE IF user.Type = "team" THEN [err |-> "", scope |-> SetupWorkspaceScope(user.Id)]
    ELSE [err |-> "unsupported_user_type", scope |-> sc]

\* Bitbucket.Validate: the scope and the workspace ids it leaves behind, and its error
\* (failAt names the GET that fails, if any)
ValidateResult(sc, wsIDs, workspaceSlugs, failAt) ==
    LET u == GetCurrentUser(failAt = "current_user") IN
    IF u.err # "" THEN [err |-> u.err, scope |-> sc, ids |-> wsIDs, fetch |-> u.fetch]
    ELSE LET s == setScope(sc, u.user) IN
         IF s.err # "" THEN [err |-> s.err, scope |-> sc, ids |-> wsIDs, fetch |-> u.fetch]
         ELSE IF IsUserScoped(s.scope)
              THEN LET w == SetWorkspaceIDs(s.scope, wsIDs, workspaceSlugs,
                                              failAt = "workspaces") IN
                   [err |-> w.err, scope |-> s.scope, ids |-> w.ids,
                    fetch |-> u.fetch \o w.fetch]
              ELSE [err |-> "", scope |-> s.scope, ids |-> wsIDs, fetch |-> u.fetch]

workspaceResource(workspace) == Resource(resourceTypeWorkspace, workspace.Id, <<>>)

\* the per-record loop of workspaceResourceType.List (user-scoped branch)
RECURSIVE workspaceListLoop(_, _)
workspaceListLoop(workspaces, rv) ==
    IF Len(workspaces) = 0 THEN [err |-> "", res |-> rv.res, fetch |-> rv.fetch]
    ELSE LET w == Head(workspaces) IN
         IF w.Slug \notin allow /\ Cardinality(allow) > 0
         THEN workspaceListLoop(Tail(workspaces), rv)
         ELSE LET c == checkPermissions(w, connectorIsPermissionDeniedErr)
                  f == rv.fetch \o ProbeFetches(w.Id)
              IN  IF c.err # "" THEN [err |-> c.err, res |-> <<>>, fetch |-> f]
                  ELSE workspaceListLoop(Tail(workspaces),
                          [res |-> IF c.has THEN Append(rv.res, workspaceResource(w))
                                   ELSE rv.res,
                           fetch |-> f])

workspaceList(token, fail) ==
    IF IsUserScoped(scope) THEN
        LET p == parsePageToken(token, resourceTypeWorkspace, <<>>) IN
        IF p.err # "" THEN Failure(p.err, <<>>)
        ELSE
        LET v == PaginationVars(pageSize, BagPageToken(p.bag))
            r == GetWorkspaces(workspaceIDs, v, fail)
            f == <<Fetch("workspaces", v)>>
        IN
        IF r.err # "" THEN Failure(r.err, f)
        ELSE
        LET n == BagNextToken(p.bag, r.next) IN
        IF n.err # "" THEN Failure(n.err, f)
        ELSE
        LET l == workspaceListLoop(r.values, [res |-> <<>>, fetch |-> f]) IN
        IF l.err # "" THEN Failure(l.err, l.fetch)
        ELSE Answer(l.res, n.token, l.fetch)
    ELSE
        LET i == WorkspaceId(scope) IN
        IF i.err # "" THEN Failure(i.err, <<>>)
        ELSE
        LET g == GetWorkspace(i.id, fail)
            f == <<[ep |-> "workspace", page |-> <<>>, limit |-> 0]>>
        IN
        IF g.err # "" THEN Failure(g.err, f)
        ELSE IF g.workspace.Slug \notin allow /\ Cardinality(allow) > 0
             THEN Answer(<<>>, EmptyToken, f)
             ELSE Answer(<<workspaceResource(g.workspace)>>, EmptyToken, f)

-----------------------------------------------------------------------------
\* EntitlementResolver: Grants of each resource type.

GetProjectGroupPermissions(workspaceId, projectKey, v, fail) ==
    HandlePagination(UpstreamList(up.pgroups, v),
                     GetErr(fail, workspaceId = W1 /\ projectKey = TheProject.Key))

GetProjectUserPermissions(workspaceId, projectKey, v, fail) ==
    HandlePagination(UpstreamList(up.pusers, v),
                     GetErr(fail, workspaceId = W1 /\ projectKey = TheProject.Key))

GetRepositoryGroupPermissions(workspaceId, repoId, v, fail) ==
    HandlePagination(UpstreamList(up.rgroups, v),
                     GetErr(fail, workspaceId = W1 /\ repoId = TheRepository.Id))

GetRepositoryUserPermissions(workspaceId, repoId, v, fail) ==
    HandlePagination(UpstreamList(up.rusers, v),
                     GetErr(fail, workspaceId = W1 /\ repoId = TheRepository.Id))

ResourceId(type, id) == [type |-> type, id |-> id]

NewGrant(resourceId, entitlement, principal) ==
    [resource |-> resourceId, entitlement |-> entitlement, principal |-> principal]

\* the grants of one page of group permissions: records outside the vocabulary
\* are skipped
\* mutant: a group permission is also expanded into one grant per member of the group
RECURSIVE groupPermissionGrants_Expanded(_, _, _, _)
groupPermissionGrants_Expanded(permissions, roles, resourceId, workspaceId) ==
    IF Len(permissions) = 0 THEN <<>>
    ELSE LET permission == Head(permissions)
             rest == groupPermissionGrants_Expanded(Tail(permissions), roles, resourceId,
                                                    workspaceId)
         IN  IF ~contains(permission.Value, roles) THEN rest
             ELSE LET gr == userGroupResource(permission.Group, workspaceId) IN
                  <<NewGrant(resourceId, permission.Value, ResourceId(gr.type, gr.id))>>
                  \o MapSeq(permission.Group.Members, LAMBDA m :
                        NewGrant(resourceId, permission.Value,
                                 ResourceId(resourceTypeUser, m.Id)))
                  \o rest

RECURSIVE groupPermissionGrants(_, _, _, _)
groupPermissionGrants(permissions, roles, resourceId, workspaceId) ==
    IF Len(permissions) = 0 THEN <<>>
    ELSE LET permission == Head(permissions)
             rest == groupPermissionGrants(Tail(permissions), roles, resourceId, workspaceId)
         IN  IF ~contains(permission.Value, roles) THEN rest
             ELSE LET gr == userGroupResource(permission.Group, workspaceId) IN
                  <<NewGrant(resourceId, permission.Value, ResourceId(gr.type, gr.id))>>
                  \o rest

RECURSIVE userPermissionGrants(_, _, _, _)
userPermissionGrants(permissions, roles, resourceId, workspaceId) ==
    IF Len(permissions) = 0 THEN <<>>
    ELSE LET permission == Head(permissions)
             rest == userPermissionGrants(Tail(permissions), roles, resourceId, workspaceId)
         IN  IF ~contains(permission.Value, roles) THEN rest
             ELSE LET ur == userResource(permission.User, workspaceId) IN
                  <<NewGrant(resourceId, permission.Value, ResourceId(ur.type, ur.id))>>
                  \o rest

\* mutant: the phase frames are pushed in the opposite order
projectGrantsPhases_Reversed(bag) ==
    BagPush(BagPush(BagPush(BagPop(bag),
        PageState(resourceTypeUser, <<>>, <<>>)),
        PageState(resourceTypeUserGroup, <<>>, <<>>)),
        PageState(resourceTypeRepository, <<>>, <<>>))

\* the phases a Project's grants are expanded into (the frames pushed on the first call)
\* mutant: the phase frames are pushed on top of the frame of the project itself
projectGrantsPhases_KeepsRoot(bag) ==
    BagPush(BagPush(BagPush(bag,
        PageState(resourceTypeRepository, <<>>, <<>>)),
        PageState(resourceTypeUserGroup, <<>>, <<>>)),
        PageState(resourceTypeUser, <<>>, <<>>))

projectGrantsPhases(bag) ==
    BagPush(BagPush(BagPush(BagPop(bag),
        PageState(resourceTypeRepository, <<>>, <<>>)),
        PageState(resourceTypeUserGroup, <<>>, <<>>)),
        PageState(resourceTypeUser, <<>>, <<>>))

\* one paginated phase: the fetched page mapped to grants, and the advanced bag
GrantsPhase(bag, r, f, grants) ==
    IF r.err # "" THEN Failure(r.err, f)
    ELSE LET n == BagNext(bag, r.next) IN
         IF n.err # "" THEN Failure(n.err, f)
         ELSE Answer(grants, BagMarshal(n.bag), f)

projectGrants(resource, token, fail) ==
    LET p == parsePageToken(token, resource.type, resource.id) IN
    IF p.err # "" THEN Failure(p.err, <<>>)
    ELSE
    LET d == DecomposeProjectId(resource.id) IN
    IF d.err # "" THEN Failure(d.err, <<>>)
    ELSE
    LET bag == p.bag
        rt == BagResourceTypeID(bag)
        v == PaginationVars(pageSize, BagPageToken(bag))
    IN
    IF rt = resourceTypeProject
    THEN Answer(<<>>, BagMarshal(projectGrantsPhases(bag)), <<>>)
    ELSE IF rt = resourceTypeRepository
    THEN LET r == GetProjectRepos(d.ws, d.pid, v, fail) IN
         GrantsPhase(bag, r, <<Fetch("repos", v)>>,
            MapSeq(r.values, LAMBDA repo :
                LET rr == repositoryResource(repo, resource.id) IN
                NewGrant(resource.id, repoEntitlement, ResourceId(rr.type, rr.id))))
    ELSE IF rt = resourceTypeUserGroup
    THEN LET r == GetProjectGroupPermissions(d.ws, d.key, v, fail) IN
         GrantsPhase(bag, r, <<Fetch("pgroups", v)>>,
            groupPermissionGrants(r.values, projectPermissions, resource.id, d.ws))
    ELSE IF rt = resourceTypeUser
    THEN LET r == GetProjectUserPermissions(d.ws, d.key, v, fail) IN
         GrantsPhase(bag, r, <<Fetch("pusers", v)>>,
            userPermissionGrants(r.values, projectPermissions, resource.id, d.ws))
    ELSE Failure("invalid_grant_resource_type", <<>>)

\* mutant: the phase frames are pushed in the opposite order
repositoryGrantsPhases_Reversed(bag) ==
    BagPush(BagPush(BagPop(bag),
        PageState(resourceTypeUser, <<>>, <<>>)),
        PageState(resourceTypeUserGroup, <<>>, <<>>))

repositoryGrantsPhases(bag) ==
    BagPush(BagPush(BagPop(bag),
        PageState(resourceTypeUserGroup, <<>>, <<>>)),
        PageState(resourceTypeUser, <<>>, <<>>))

repositoryGrants(resource, token, fail) ==
    LET p == parsePageToken(token, resource.type, resource.id) IN
    IF p.err # "" THEN Failure(p.err, <<>>)
    ELSE
    LET dr == DecomposeRepositoryId(resource.id) IN
    IF dr.err # "" THEN Failure(dr.err, <<>>)
    ELSE
    LET d == DecomposeProjectId(dr.project) IN
    IF d.err # "" THEN Failure(d.err, <<>>)
    ELSE
    LET bag == p.bag
        rt == BagResourceTypeID(bag)
        v == PaginationVars(pageSize, BagPageToken(bag))
    IN
    IF rt = resourceTypeRepository
    THEN Answer(<<>>, BagMarshal(repositoryGrantsPhases(bag)), <<>>)
    ELSE IF rt = resourceTypeUserGroup
    THEN LET r == GetRepositoryGroupPermissions(d.ws, dr.repo, v, fail) IN
         GrantsPhase(bag, r, <<Fetch("rgroups", v)>>,
            groupPermissionGrants(r.values, repositoryRoles, resource.id, d.ws))
    ELSE IF rt = resourceTypeUser
    THEN LET r == GetRepositoryUserPermissions(d.ws, dr.repo, v, fail) IN
         GrantsPhase(bag, r, <<Fetch("rusers", v)>>,
            userPermissionGrants(r.values, repositoryRoles, resource.id, d.ws))
    ELSE Failure("invalid_grant_resource_type", <<>>)

\* mapUserIDs: the ids of the users, in order
mapUserIDs(users) == [i \in 1..Len(users) |-> users[i].Id]

\* the profile userGroupResource gives a group: the key userGroup_members is set
\* only for a group with members, to their ids joined by commas
userGroupProfile(userGroup) ==
    IF Len(userGroup.Members) > 0
    THEN [has |-> TRUE, members |-> JoinComma(mapUserIDs(userGroup.Members))]
    ELSE [has |-> FALSE, members |-> <<>>]

\* userGroupResourceType.Grants reading the members with one upstream request
userGroupGrants_Fetching(resource, profile, token, fail) ==
    IF fail THEN Failure("upstream", <<[ep |-> "group_members", page |-> <<>>, limit |-> 0]>>)
    ELSE IF ~profile.has
    THEN Answer(<<>>, EmptyToken, <<[ep |-> "group_members", page |-> <<>>, limit |-> 0]>>)
    ELSE Answer(MapSeq(SplitComma(profile.members), LAMBDA id :
                    NewGrant(resource.id, memberEntitlement,
                             ResourceId(resourceTypeUser, id))),
                EmptyToken, <<[ep |-> "group_members", page |-> <<>>, limit |-> 0]>>)

\* userGroupResourceType.Grants: the members are those of the resource's profile;
\* the page token is not read and no request is sent
userGroupGrants(resource, profile, token, fail) ==
    IF ~profile.has THEN Answer(<<>>, EmptyToken, <<>>)
    ELSE Answer(MapSeq(SplitComma(profile.members), LAMBDA id :
                    NewGrant(resource.id, memberEntitlement,
                             ResourceId(resourceTypeUser, id))),
                EmptyToken, <<>>)

workspaceGrants(resource, token, fail) ==
    LET p == parsePageToken(token, resourceTypeUser, <<>>) IN
    IF p.err # "" THEN Failure(p.err, <<>>)
    ELSE
    LET v == PaginationVars(pageSize, BagPageToken(p.bag))
        r == GetWorkspaceMembers(resource.id, v, fail)
        f == <<Fetch("members", v)>>
    IN
    IF r.err # "" THEN Failure(r.err, f)
    ELSE
    LET n == BagNextToken(p.bag, r.next) IN
    IF n.err # "" THEN Failure(n.err, f)
    ELSE Answer(MapSeq(r.values, LAMBDA user :
                    NewGrant(resource.id, memberEntitlement,
                             ResourceId(resourceTypeUser, user.Id))),
                n.token, f)

-----------------------------------------------------------------------------
\* GrantMutator: the upstream permission state and the client calls that read and
\* write it.  Upstream knows one user and one group of workspace W1; a call that
\* names anything else is answered 404.

KnownUsers == {UserRec(1).Id}
KnownGroups == {GroupRec(1).Slug}

NoPermissions ==
    [pusers |-> [u \in KnownUsers |-> roleNone], pgroups |-> [g \in KnownGroups |-> roleNone],
     rusers |-> [u \in KnownUsers |-> roleNone], rgroups |-> [g \in KnownGroups |-> roleNone],
     members |-> {}]

UpCall(method, store, who) == [method |-> method, store |-> store, who |-> who]

UpErr(fail, found) == IF fail THEN "upstream" ELSE IF ~found THEN "not_found" ELSE ""

\* GET of one permission record
UpGet(st, store, pathOk, who, fail) ==
    LET found == pathOk /\ who \in DOMAIN st[store] IN
    [err |-> UpErr(fail = "read", found),
     Value |-> IF found THEN st[store][who] ELSE <<>>,
     calls |-> <<UpCall("GET", store, who)>>]

\* PUT of one permission record
UpPut(st, store, pathOk, who, permission, fail) ==
    LET found == pathOk /\ who \in DOMAIN st[store]
        err == UpErr(fail = "write", found)
    IN  [err |-> err,
         up |-> IF err = "" THEN [st EXCEPT ![store][who] = permission] ELSE st,
         calls |-> <<UpCall("PUT", store, who)>>]

\* DELETE of one permission record
UpDelete(st, store, pathOk, who, fail) ==
    LET found == pathOk /\ who \in DOMAIN st[store]
        err == UpErr(fail = "write", found)
    IN  [err |-> err,
         up |-> IF err = "" THEN [st EXCEPT ![store][who] = roleNone] ELSE st,
         calls |-> <<UpCall("DELETE", store, who)>>]

IsTheProject(workspaceId, projectKey) == workspaceId = W1 /\ projectKey = TheProject.Key
IsTheRepository(workspaceId, repoId) == workspaceId = W1 /\ repoId = TheRepository.Id

GetProjectUserPermission(st, workspaceId, projectKey, userId, fail) ==
    UpGet(st, "pusers", IsTheProject(workspaceId, projectKey), userId, fail)

UpdateProjectUserPermission(st, workspaceId, projectKey, userId, permission, fail) ==
    UpPut(st, "pusers", IsTheProject(workspaceId, projectKey), userId, permission, fail)

DeleteProjectUserPermission(st, workspaceId, projectKey, userId, fail) ==
    UpDelete(st, "pusers", IsTheProject(workspaceId, projectKey), userId, fail)

GetProjectGroupPermission(st, workspaceId, projectKey, groupSlug, fail) ==
    UpGet(st, "pgroups", IsTheProject(workspaceId, projectKey), groupSlug, fail)

UpdateProjectGroupPermission(st, workspaceId, projectKey, groupSlug, permission, fail) ==
    UpPut(st, "pgroups", IsTheProject(workspaceId, projectKey), groupSlug, permission, fail)

DeleteProjectGroupPermission(st, workspaceId, projectKey, groupSlug, fail) ==
    UpDelete(st, "pgroups", IsTheProject(workspaceId, projectKey), groupSlug, fail)

GetRepoUserPermission(st, workspaceId, repoId, userId, fail) ==
    UpGet(st, "rusers", IsTheRepository(workspaceId, repoId), userId, fail)

UpdateRepoUserPermission(st, workspaceId, repoId, userId, permission, fail) ==
    UpPut(st, "rusers", IsTheRepository(workspaceId, repoId), userId, permission, fail)

DeleteRepoUserPermission(st, workspaceId, repoId, userId, fail) ==
    UpDelete(st, "rusers", IsTheRepository(workspaceId, repoId), userId, fail)

GetRepoGroupPermission(st, workspaceId, repoId, groupSlug, fail) ==
    UpGet(st, "rgroups", IsTheRepository(workspaceId, repoId), groupSlug, fail)

UpdateRepoGroupPermission(st, workspaceId, repoId, groupSlug, permission, fail) ==
    UpPut(st, "rgroups", IsTheRepository(workspaceId, repoId), groupSlug, permission, fail)

DeleteRepoGroupPermission(st, workspaceId, repoId, groupSlug, fail) ==
    UpDelete(st, "rgroups", IsTheRepository(workspaceId, repoId), groupSlug, fail)

IsTheGroup(workspaceId, groupSlug) == workspaceId = W1 /\ groupSlug \in KnownGroups

GetUserGroupMembers(st, workspaceId, groupSlug, fail) ==
    [err |-> UpErr(fail = "read", IsTheGroup(workspaceId, groupSlug)),
     members |-> IF IsTheGroup(workspaceId, groupSlug) THEN st.members ELSE {},
     calls |-> <<UpCall("GET", "members", groupSlug)>>]

AddUserToGroup(st, workspaceId, groupSlug, userId, fail) ==
    LET err == UpErr(fail = "write",
                     IsTheGroup(workspaceId, groupSlug) /\ userId \in KnownUsers)
    IN  [err |-> err,
         up |-> IF err = "" THEN [st EXCEPT !.members = @ \cup {userId}] ELSE st,
         calls |-> <<UpCall("PUT", "members", userId)>>]

RemoveUserFromGroup(st, workspaceId, groupSlug, userId, fail) ==
    LET err == UpErr(fail = "write",
                     IsTheGroup(workspaceId, groupSlug) /\ userId \in KnownUsers)
    IN  [err |-> err,
         up |-> IF err = "" THEN [st EXCEPT !.members = @ \ {userId}] ELSE st,
         calls |-> <<UpCall("DELETE", "members", userId)>>]

\* mutant: no user is ever found among the members
isUserPresent_Never(users, targetUserId) == FALSE

isUserPresent(users, targetUserId) == targetUserId \in users

\* the outcome of a Grant / Revoke: its error, the upstream calls it made, and the
\* upstream state it leaves
Outcome(err, calls, st) == [err |-> err, calls |-> calls, up |-> st]

\* a write that follows the permission lookup `g`
AfterLookup(g, w) == Outcome(w.err, g.calls \o w.calls, w.up)

projectGetPermission(st, principal, workspaceId, projectKey, fail) ==
    IF principal.type = resourceTypeUser
    THEN GetProjectUserPermission(st, workspaceId, projectKey, principal.id, fail)
    ELSE IF principal.type = resourceTypeUserGroup
    THEN GetProjectGroupPermission(st, workspaceId, projectKey, principal.id, fail)
    ELSE [err |-> "invalid_principal_type", Value |-> <<>>, calls |-> <<>>]

projectGrant(st, principal, entitlementId, fail) ==
    LET principalIsUser == principal.type = resourceTypeUser
        principalIsGroup == principal.type = resourceTypeUserGroup
    IN
    IF ~principalIsUser /\ ~principalIsGroup THEN Outcome("principal_not_grantable", <<>>, st)
    ELSE
    LET e == ParseEntitlementID(entitlementId) IN
    IF e.err # "" THEN Outcome(e.err, <<>>, st)
    ELSE
    LET d == DecomposeProjectId(e.resource) IN
    IF d.err # "" THEN Outcome(d.err, <<>>, st)
    ELSE IF e.slug = repoEntitlement
    THEN Outcome("repository_membership_not_supported", <<>>, st)
    ELSE IF ~contains(e.slug, projectPermissions) THEN Outcome("unsupported_role", <<>>, st)
    ELSE
    LET g == projectGetPermission(st, principal, d.ws, d.key, fail) IN
    IF g.err # "" THEN Outcome(g.err, g.calls, st)
    ELSE IF principalIsUser
    THEN AfterLookup(g, UpdateProjectUserPermission(st, d.ws, d.key, principal.id,
                                                    e.slug, fail))
    ELSE AfterLookup(g, UpdateProjectGroupPermission(st, d.ws, d.key, principal.id,
                                                     e.slug, fail))

projectRevoke(st, principal, entitlementId, fail) ==
    LET principalIsUser == principal.type = resourceTypeUser
        principalIsGroup == principal.type = resourceTypeUserGroup
    IN
    IF ~principalIsUser /\ ~principalIsGroup THEN Outcome("principal_not_grantable", <<>>, st)
    ELSE
    LET e == ParseEntitlementID(entitlementId) IN
    IF e.err # "" THEN Outcome(e.err, <<>>, st)
    ELSE
    LET d == DecomposeProjectId(e.resource) IN
    IF d.err # "" THEN Outcome(d.err, <<>>, st)
    ELSE IF e.slug = repoEntitlement
    THEN Outcome("repository_membership_not_supported", <<>>, st)
    ELSE
    LET g == projectGetPermission(st, principal, d.ws, d.key, fail) IN
    IF g.err # "" THEN Outcome(g.err, g.calls, st)
    ELSE IF ~contains(e.slug, projectPermissions)
    THEN Outcome("unsupported_role", g.calls, st)
    ELSE IF principalIsUser
    THEN AfterLookup(g, DeleteProjectUserPermission(st, d.ws, d.key, principal.id, fail))
    ELSE AfterLookup(g, DeleteProjectGroupPermission(st, d.ws, d.key, principal.id, fail))

repositoryGetPermission(st, principal, workspaceId, repoId, fail) ==
    IF principal.type = resourceTypeUser
    THEN GetRepoUserPermission(st, workspaceId, repoId, principal.id, fail)
    ELSE IF principal.type = resourceTypeUserGroup
    THEN LET dg == DecomposeGroupId(principal.id) IN
         IF dg.err # "" THEN [err |-> dg.err, Value |-> <<>>, calls |-> <<>>]
         ELSE GetRepoGroupPermission(st, workspaceId, repoId, dg.slug, fail)
    ELSE [err |-> "invalid_principal_type", Value |-> <<>>, calls |-> <<>>]

repositoryGrant(st, principal, entitlementId, fail) ==
    LET principalIsUser == principal.type = resourceTypeUser
        principalIsGroup == principal.type = resourceTypeUserGroup
    IN
    IF ~principalIsUser /\ ~principalIsGroup THEN Outcome("principal_not_grantable", <<>>, st)
    ELSE
    LET e == ParseEntitlementID(entitlementId) IN
    IF e.err # "" THEN Outcome(e.err, <<>>, st)
    ELSE
    LET dr == DecomposeRepositoryId(e.resource) IN
    IF dr.err # "" THEN Outcome(dr.err, <<>>, st)
    ELSE
    LET d == DecomposeProjectId(dr.project) IN
    IF d.err # "" THEN Outcome(d.err, <<>>, st)
    ELSE
    LET g == repositoryGetPermission(st, principal, d.ws, dr.repo, fail) IN
    IF g.err # "" THEN Outcome(g.err, g.calls, st)
    ELSE IF ~contains(e.slug, repositoryRoles) THEN Outcome("unsupported_role", g.calls, st)
    ELSE IF principalIsUser
    THEN AfterLookup(g, UpdateRepoUserPermission(st, d.ws, dr.repo, principal.id,
                                                 e.slug, fail))
    ELSE LET dg == DecomposeGroupId(principal.id) IN
         IF dg.err # "" THEN Outcome(dg.err, g.calls, st)
         ELSE AfterLookup(g, UpdateRepoGroupPermission(st, d.ws, dr.repo, dg.slug,
                                                       e.slug, fail))

repositoryRevoke(st, principal, entitlementId, fail) ==
    LET principalIsUser == principal.type = resourceTypeUser
        principalIsGroup == principal.type = resourceTypeUserGroup
    IN
    IF ~principalIsUser /\ ~principalIsGroup THEN Outcome("principal_not_grantable", <<>>, st)
    ELSE
    LET e == ParseEntitlementID(entitlementId) IN
    IF e.err # "" THEN Outcome(e.err, <<>>, st)
    ELSE
    LET dr == DecomposeRepositoryId(e.resource) IN
    IF dr.err # "" THEN Outcome(dr.err, <<>>, st)
    ELSE
    LET d == DecomposeProjectId(dr.project) IN
    IF d.err # "" THEN Outcome(d.err, <<>>, st)
    ELSE
    LET g == repositoryGetPermission(st, principal, d.ws, dr.repo, fail) IN
    IF g.err # "" THEN Outcome(g.err, g.calls, st)
    ELSE IF ~contains(e.slug, repositoryRoles) THEN Outcome("unsupported_role", g.calls, st)
    ELSE IF principalIsUser
    THEN AfterLookup(g, DeleteRepoUserPermission(st, d.ws, dr.repo, principal.id, fail))
    ELSE LET dg == DecomposeGroupId(principal.id) IN
         IF dg.err # "" THEN Outcome(dg.err, g.calls, st)
         ELSE AfterLookup(g, DeleteRepoGroupPermission(st, d.ws, dr.repo, dg.slug, fail))

\* mutant: the principal's type is not checked
userGroupGrant_AnyPrincipal(st, principal, entitlementId, fail) ==
    LET e == ParseEntitlementID(entitlementId) IN
    IF e.err # "" THEN Outcome(e.err, <<>>, st)
    ELSE
    LET d == DecomposeGroupId(e.resource) IN
    IF d.err # "" THEN Outcome(d.err, <<>>, st)
    ELSE
    LET g == GetUserGroupMembers(st, d.ws, d.slug, fail) IN
    IF g.err # "" THEN Outcome(g.err, g.calls, st)
    ELSE IF isUserPresent(g.members, principal.id)
    THEN Outcome("already_member", g.calls, st)
    ELSE AfterLookup(g, AddUserToGroup(st, d.ws, d.slug, principal.id, fail))

userGroupGrant(st, principal, entitlementId, fail) ==
    IF principal.type # resourceTypeUser THEN Outcome("principal_not_grantable", <<>>, st)
    ELSE
    LET e == ParseEntitlementID(entitlementId) IN
    IF e.err # "" THEN Outcome(e.err, <<>>, st)
    ELSE
    LET d == DecomposeGroupId(e.resource) IN
    IF d.err # "" THEN Outcome(d.err, <<>>, st)
    ELSE
    LET g == GetUserGroupMembers(st, d.ws, d.slug, fail) IN
    IF g.err # "" THEN Outcome(g.err, g.calls, st)
    ELSE IF isUserPresent(g.members, principal.id)
    THEN Outcome("already_member", g.calls, st)
    ELSE AfterLookup(g, AddUserToGroup(st, d.ws, d.slug, principal.id, fail))

userGroupRevoke(st, principal, entitlementId, fail) ==
    IF principal.type # resourceTypeUser THEN Outcome("principal_not_grantable", <<>>, st)
    ELSE
    LET e == ParseEntitlementID(entitlementId) IN
    IF e.err # "" THEN Outcome(e.err, <<>>, st)
    ELSE
    LET d == DecomposeGroupId(e.resource) IN
    IF d.err # "" THEN Outcome(d.err, <<>>, st)
    ELSE
    LET g == GetUserGroupMembers(st, d.ws, d.slug, fail) IN
    IF g.err # "" THEN Outcome(g.err, g.calls, st)
    ELSE IF ~isUserPresent(g.members, principal.id)
    THEN Outcome("not_member", g.calls, st)
    ELSE AfterLookup(g, RemoveUserFromGroup(st, d.ws, d.slug, principal.id, fail))

-----------------------------------------------------------------------------
\* Upstream states the model starts from.

Prefix(Rec(_), n) == [i \in 1..n |-> Rec(i)]

PermValues == {roleRead, roleCreate, roleNone}

GroupPermissionLists ==
    UNION {{[i \in 1..n |-> [Value |-> f[i], Group |-> GroupRec(i)]] :
                f \in [1..n -> PermValues]} : n \in 0..MaxRecs}

UserPermissionLists ==
    UNION {{[i \in 1..n |-> [Value |-> f[i], User |-> UserRec(i)]] :
                f \in [1..n -> PermValues]} : n \in 0..MaxRecs}

ProbeOk == [kind |-> "ok", at |-> 0]

ProbeOutcomes ==
    {ProbeOk} \cup {[kind |-> "denied", at |-> a] : a \in 1..3}
              \cup {[kind |-> "status403", at |-> 1], [kind |-> "error", at |-> 2]}

UserIdentity == [Type |-> "user", Id |-> <<"u", "0">>]
TeamIdentity == [Type |-> "team", Id |-> W1]
OtherIdentity == [Type |-> "app", Id |-> <<"a", "0">>]

\* a single readable workspace, a team credential, and nothing else
BaseUp ==
    [workspaces |-> <<WorkspaceRec(1)>>, probe |-> <<ProbeOk>>,
     identity |-> TeamIdentity,
     projects |-> <<>>, repos |-> <<>>, members |-> <<>>,
     pgroups |-> <<>>, pusers |-> <<>>, rgroups |-> <<>>, rusers |-> <<>>]

WorkspaceUps ==
    UNION {{[BaseUp EXCEPT !.workspaces = Prefix(WorkspaceRec, n), !.probe = pr,
                           !.identity = idn] :
                pr \in [1..n -> ProbeOutcomes],
                idn \in {UserIdentity, TeamIdentity}} : n \in 0..MaxRecs}
    \cup {[BaseUp EXCEPT !.identity = OtherIdentity]}

ProjectGrantUps ==
    {[BaseUp EXCEPT !.repos = Prefix(RepositoryRec, nr), !.pgroups = g, !.pusers = u] :
        nr \in 0..MaxRecs, g \in GroupPermissionLists, u \in UserPermissionLists}

RepositoryGrantUps ==
    {[BaseUp EXCEPT !.rgroups = g, !.rusers = u] :
        g \in GroupPermissionLists, u \in UserPermissionLists}

UpsFor(op) ==
    IF op = "workspaceList" THEN WorkspaceUps
    ELSE IF op = "projectList"
    THEN {[BaseUp EXCEPT !.projects = Prefix(ProjectRec, n)] : n \in 0..MaxRecs}
    ELSE IF op = "repositoryList"
    THEN {[BaseUp EXCEPT !.repos = Prefix(RepositoryRec, n)] : n \in 0..MaxRecs}
    ELSE IF op \in {"userList", "workspaceGrants"}
    THEN {[BaseUp EXCEPT !.members = Prefix(UserRec, n)] : n \in 0..MaxRecs}
    ELSE IF op = "projectGrants" THEN ProjectGrantUps
    ELSE RepositoryGrantUps

AllowLists == SUBSET {WorkspaceRec(i).Slug : i \in 1..MaxRecs}

-----------------------------------------------------------------------------
\* The caller: it starts an enumeration with the empty token and feeds every
\* returned token back until the empty token comes back.

TheProjectId == ComposeProjectId(W1, TheProject.Id, TheProject.Key)
TheRepositoryId == ComposeRepositoryId(TheProjectId, TheRepository.Id)
\* ids with the wrong number of segments
ShortProjectId == W1 \o <<Sep>> \o TheProject.Id
ShortRepositoryId == TheProjectId

NoTarget == [nil |-> TRUE, type |-> "", id |-> <<>>]
Target(type, id) == [nil |-> FALSE, type |-> type, id |-> id]

Targets(op) ==
    IF op = "workspaceList" THEN {NoTarget}
    ELSE IF op \in {"projectList", "userList"}
    THEN {NoTarget, Target(resourceTypeWorkspace, W1)}
    ELSE IF op = "repositoryList"
    THEN {NoTarget, Target(resourceTypeProject, TheProjectId),
          Target(resourceTypeProject, ShortProjectId)}
    ELSE IF op = "projectGrants"
    THEN {Target(resourceTypeProject, TheProjectId),
          Target(resourceTypeProject, ShortProjectId)}
    ELSE IF op = "repositoryGrants"
    THEN {Target(resourceTypeRepository, TheRepositoryId),
          Target(resourceTypeRepository, ShortRepositoryId)}
    ELSE {Target(resourceTypeWorkspace, W1)}

Ops == {"workspaceList", "projectList", "repositoryList", "userList",
        "projectGrants", "repositoryGrants", "workspaceGrants"}

ParentOf(t) == [nil |-> t.nil, Resource |-> t.id]

\* the connector's dispatch of a List / Grants request to its resource type
\* the user group of the walk as the group listing returned it, members inline
ListedGroup == [Slug |-> GroupRec(1).Slug, Members |-> up.members]

Handle(op, t, token, fail) ==
    IF op = "workspaceList" THEN workspaceList(token, fail)
    ELSE IF op = "projectList" THEN projectList(ParentOf(t), token, fail)
    ELSE IF op = "repositoryList" THEN repositoryList(ParentOf(t), token, fail)
    ELSE IF op = "userList" THEN userList(ParentOf(t), token, fail)
    ELSE IF op = "projectGrants" THEN projectGrants(ResourceId(t.type, t.id), token, fail)
    ELSE IF op = "repositoryGrants"
    THEN repositoryGrants(ResourceId(t.type, t.id), token, fail)
    ELSE IF op = "userGroupGrants"
    THEN userGroupGrants(ResourceId(t.type, t.id), userGroupProfile(ListedGroup),
                         token, fail)
    ELSE workspaceGrants(ResourceId(t.type, t.id), token, fail)

\* walk.op and walk.target name the enumeration a behaviour follows
IdleWalk(op, t) ==
    [op |-> op, target |-> t, token |-> EmptyToken, out |-> <<>>,
     fetches |-> <<>>, calls |-> 0, status |-> "idle"]

NoCall ==
    [op |-> "none", token |-> EmptyToken, res |-> <<>>,
     next |-> EmptyToken, err |-> "", fetch |-> <<>>, failed |-> FALSE,
     replay |-> FALSE, before |-> {}]

Call(op, token, r, fail, replay) ==
    [op |-> op, token |-> token, res |-> r.res, next |-> r.next,
     err |-> r.err, fetch |-> r.fetch, failed |-> fail, replay |-> replay,
     before |-> {}]

HistTokens == {h.token : h \in hist}

\* upstream permissions, the Grant / Revoke calls made so far, and the last of them
\* (`repeat`: it repeats the call before it, which had succeeded)
NoMutateCall ==
    [op |-> "none", principal |-> [type |-> "", id |-> <<>>], entitlement |-> <<>>,
     fail |-> "none", err |-> "", calls |-> <<>>, before |-> NoPermissions,
     repeat |-> FALSE]

NoMutation == [up |-> NoPermissions, n |-> 0, call |-> NoMutateCall]

NoIds ==
    [w |-> <<>>, p |-> <<>>, k |-> <<>>, r |-> <<>>, raw |-> <<>>, op |-> "none",
     composed |-> <<>>, err |-> "", parts |-> <<>>]

\* no configuration under test: the connector is already built
NoConfig ==
    [token |-> <<>>, username |-> <<>>, password |-> <<>>, consumerId |-> <<>>,
     consumerSecret |-> <<>>, workspaces |-> <<>>, stage |-> "none", err |-> "",
     auth |-> "none"]

ReadPathUnchanged == UNCHANGED <<pageSize, up, allow, perms, ids, cfg>>

Init ==
    /\ pageSize \in 1..MaxPageSize
    /\ \E op \in Ops :
        /\ up \in UpsFor(op)
        /\ allow \in IF op = "workspaceList" THEN AllowLists ELSE {{}}
        /\ \E t \in Targets(op) : walk = IdleWalk(op, t)
    /\ scope = NoScope
    /\ workspaceIDs = {}
    /\ hist = {}
    /\ last = NoCall
    /\ perms = NoMutation
    /\ ids = NoIds
    /\ cfg = NoConfig

Validate ==
    /\ walk.status # "running"
    /\ \E failAt \in {"", "current_user", "workspaces"} :
        LET r == ValidateResult(scope, workspaceIDs, allow, failAt) IN
        /\ scope' = r.scope
        /\ workspaceIDs' = r.ids
        /\ last' = [NoCall EXCEPT !.op = "validate", !.err = r.err,
                                  !.failed = failAt # "", !.before = workspaceIDs,
                                  !.fetch = r.fetch]
    /\ UNCHANGED <<walk, hist>>
    /\ ReadPathUnchanged

StartWalk ==
    /\ walk.status # "running"
    /\ walk' = [IdleWalk(walk.op, walk.target) EXCEPT !.status = "running"]
    /\ hist' = {}
    /\ last' = NoCall
    /\ UNCHANGED <<scope, workspaceIDs>>
    /\ ReadPathUnchanged

\* the client's scope and workspace ids once a List or Grants handler has returned
\* under a workspace listing that forgets the resolved workspace ids
ClientAfter_ListForgets(op, sc, wsIDs) ==
    [scope |-> sc, ids |-> IF op = "workspaceList" THEN {} ELSE wsIDs]

\* the client's scope and workspace ids once a List or Grants handler has returned:
\* the handlers read them (IsUserScoped, WorkspaceId, GetWorkspaces) and assign neither
ClientAfter(op, sc, wsIDs) == [scope |-> sc, ids |-> wsIDs]

\* one call of the walk: the handler runs on the token the caller holds; a call
\* that fails because upstream failed is retried with the same token
StepWith(op, fail) ==
    /\ walk.status = "running"
    /\ walk.op = op
    /\ \E r \in {Handle(op, walk.target, walk.token, fail)} :
        /\ last' = Call(op, walk.token, r, fail, FALSE)
        /\ walk' = IF r.err = ""
                   THEN [walk EXCEPT !.out = @ \o r.res, !.token = r.next,
                                     !.fetches = @ \o r.fetch, !.calls = @ + 1,
                                     !.status = IF r.next = EmptyToken THEN "done"
                                                ELSE "running"]
                   ELSE IF fail THEN walk
                   ELSE [walk EXCEPT !.status = "failed"]
        /\ hist' = IF r.err = "" /\ walk.token \notin HistTokens
                   THEN hist \cup {[token |-> walk.token, res |-> r.res,
                                    next |-> r.next, fetch |-> r.fetch]}
                   ELSE hist
    /\ scope' = ClientAfter(op, scope, workspaceIDs).scope
    /\ workspaceIDs' = ClientAfter(op, scope, workspaceIDs).ids
    /\ ReadPathUnchanged

Step(op) == \E fail \in BOOLEAN : StepWith(op, fail)

WorkspaceList == Step("workspaceList")
ProjectList == Step("projectList")
RepositoryList == Step("repositoryList")
UserList == Step("userList")
ProjectGrants == Step("projectGrants")
RepositoryGrants == Step("repositoryGrants")
WorkspaceGrants == Step("workspaceGrants")

\* the caller stops and resumes: it calls again with a token it was given earlier
Resume ==
    /\ walk.status \in {"running", "done"}
    /\ \E h \in hist :
        last' = Call(walk.op, h.token,
                     Handle(walk.op, walk.target, h.token, FALSE), FALSE, TRUE)
    /\ scope' = ClientAfter(walk.op, scope, workspaceIDs).scope
    /\ workspaceIDs' = ClientAfter(walk.op, scope, workspaceIDs).ids
    /\ UNCHANGED <<walk, hist>>
    /\ ReadPathUnchanged

\* a request that carries a page token the connector never issued
ForeignToken ==
    /\ \E fail \in BOOLEAN :
        last' = Call(walk.op, CorruptToken,
                     Handle(walk.op, walk.target, CorruptToken, fail), fail, FALSE)
    /\ scope' = ClientAfter(walk.op, scope, workspaceIDs).scope
    /\ workspaceIDs' = ClientAfter(walk.op, scope, workspaceIDs).ids
    /\ UNCHANGED <<walk, hist>>
    /\ ReadPathUnchanged

Next ==
    \/ Validate
    \/ StartWalk
    \/ ForeignToken
    \/ WorkspaceList
    \/ ProjectList
    \/ RepositoryList
    \/ UserList
    \/ ProjectGrants
    \/ RepositoryGrants
    \/ WorkspaceGrants
    \/ Resume

Spec == Init /\ [][Next]_vars

-----------------------------------------------------------------------------
\* Properties of the read path (checked under Spec).

Finished(op) == walk.op = op /\ walk.status = "done"

\* a workspace the user-scoped listing lets through
Admitted(w) ==
    /\ shouldIncludeWorkspace(workspaceIDs, w.Id)
    /\ shouldIncludeWorkspace(allow, w.Slug)
    /\ ProbeOf(w.Id).kind = "ok"

ChildListingsExact ==
    /\ Finished("projectList") /\ ~walk.target.nil =>
        walk.out = MapSeq(up.projects, LAMBDA x : projectResource(x, W1))
    /\ Finished("repositoryList") /\ ~walk.target.nil =>
        walk.out = MapSeq(up.repos, LAMBDA x : repositoryResource(x, TheProjectId))
    /\ Finished("userList") /\ ~walk.target.nil =>
        walk.out = MapSeq(up.members, LAMBDA x : userResource(x, W1))

\* C1 (as stated): every listing (workspace, project, repository, user) enumerated to
\* exhaustion yields exactly the upstream collection, whatever the page size.
C1_EveryListingIsUpstreamCollection ==
    /\ ChildListingsExact
    /\ Finished("workspaceList") => walk.out = MapSeq(up.workspaces, workspaceResource)

\* C1 (amended): the project, repository and user listings enumerated to exhaustion
\* yield exactly the upstream collection, whatever the page size; the workspace
\* listing yields, in upstream order, the workspaces that scope resolution kept, the
\* allow-list admits and whose probes succeeded (user scope), or the credential's own
\* workspace when the allow-list admits it (workspace scope).
C1_ListingsYieldAdmittedCollection ==
    /\ ChildListingsExact
    /\ Finished("workspaceList") /\ IsUserScoped(scope) =>
        walk.out = MapSeq(SelectSeq(up.workspaces, Admitted), workspaceResource)
    /\ Finished("workspaceList") /\ IsWorkspaceScoped(scope) =>
        walk.out = IF shouldIncludeWorkspace(allow, GetWorkspace(scope.id, FALSE).workspace.Slug)
                   THEN <<workspaceResource(GetWorkspace(scope.id, FALSE).workspace)>>
                   ELSE <<>>

\* a workspace listing that took two pages and left a workspace out
C1_Witness ==
    /\ Finished("workspaceList")
    /\ IsUserScoped(scope)
    /\ walk.calls >= 2
    /\ Len(walk.out) > 0
    /\ Len(walk.out) < Len(up.workspaces)

\* what upstream holds behind a paginated endpoint, and the page a fetch asked for
PagedEndpoints ==
    {"workspaces", "projects", "repos", "members", "pgroups", "pusers", "rgroups", "rusers"}

Collection(ep) ==
    IF ep = "workspaces" THEN up.workspaces
    ELSE IF ep = "projects" THEN up.projects
    ELSE IF ep = "repos" THEN up.repos
    ELSE IF ep = "members" THEN up.members
    ELSE IF ep = "pgroups" THEN up.pgroups
    ELSE IF ep = "pusers" THEN up.pusers
    ELSE IF ep = "rgroups" THEN up.rgroups
    ELSE up.rusers

PagedFetches(fetch) == {i \in 1..Len(fetch) : fetch[i].ep \in PagedEndpoints}
PageNumber(f) == IF Len(f.page) = 0 THEN 1 ELSE f.page[1]
UpstreamHasMore(f) == PageNumber(f) * f.limit < Len(Collection(f.ep))

GrantsOps == {"projectGrants", "repositoryGrants", "workspaceGrants"}
PhasedOps == {"projectGrants", "repositoryGrants"}

\* the last call was a List / Grants call of the walk (or a resumed one) that succeeded
Succeeded == last.op \in Ops /\ last.err = ""

\* frames the cursor of the call holds once the initial frame is in place
FramesHeld(call) ==
    IF BagDepth(call.token.bag) = 0 THEN 1 ELSE BagDepth(call.token.bag)

PushesPhases(call) == call.op \in PhasedOps /\ call.token = EmptyToken

ExhaustsLastFrame(call) ==
    /\ FramesHeld(call) = 1
    /\ ~PushesPhases(call)
    /\ \A i \in PagedFetches(call.fetch) : ~UpstreamHasMore(call.fetch[i])

AllFrames(b) == b.states \o b.cur

\* C2: in every listing the next token is empty exactly on the call that exhausts
\* the last remaining frame of the cursor: the final page returns the empty token and
\* no earlier page does; a call with the empty token starts from the first upstream
\* page of the first phase.
C2_TerminalToken ==
    Succeeded =>
        /\ last.next = EmptyToken <=> ExhaustsLastFrame(last)
        /\ last.token = EmptyToken =>
            /\ \A i \in PagedFetches(last.fetch) : Len(last.fetch[i].page) = 0
            /\ \A i \in 1..Len(AllFrames(last.next.bag)) :
                 PushesPhases(last) => Len(AllFrames(last.next.bag)[i].Token) = 0

\* a listing was walked to its final page over several calls, and the caller then
\* passed the empty token again and got the first page with a non-empty next token
C2_Witness ==
    /\ Finished("repositoryList")
    /\ walk.calls >= 2
    /\ last.replay
    /\ last.token = EmptyToken
    /\ last.err = ""
    /\ last.next # EmptyToken

\* The order of the upstream fetches of a finished or running walk: `order` ranks
\* the endpoints; the fetches never step back to an endpoint of lower rank, and
\* they leave an endpoint only once upstream has no further page of it.
Rank(order, ep) == CHOOSE k \in 1..Len(order) : order[k] = ep

PhasesInOrder(order) ==
    \A i \in 1..Len(walk.fetches) : \A j \in 1..Len(walk.fetches) :
        i < j =>
            /\ Rank(order, walk.fetches[i].ep) <= Rank(order, walk.fetches[j].ep)
            /\ Rank(order, walk.fetches[i].ep) < Rank(order, walk.fetches[j].ep)
                  /\ j = i + 1 => ~UpstreamHasMore(walk.fetches[i])
            /\ walk.fetches[i].ep = walk.fetches[j].ep /\ j = i + 1 =>
                  PageNumber(walk.fetches[j]) = PageNumber(walk.fetches[i]) + 1

EndpointOf(op, rt) ==
    IF op = "projectGrants"
    THEN (IF rt = resourceTypeRepository THEN "repos"
          ELSE IF rt = resourceTypeUserGroup THEN "pgroups" ELSE "pusers")
    ELSE IF op = "repositoryGrants"
    THEN (IF rt = resourceTypeUserGroup THEN "rgroups" ELSE "rusers")
    ELSE "members"

PermissionGrants(grants) == SelectSeq(grants, LAMBDA g : g.entitlement # repoEntitlement)

InVocabulary(permissions, roles) == SelectSeq(permissions, LAMBDA x : contains(x.Value, roles))

GroupGrant(resourceId, x) ==
    NewGrant(resourceId, x.Value,
             ResourceId(resourceTypeUserGroup, ComposedGroupId(W1, x.Group.Slug)))

UserGrant(resourceId, x) ==
    NewGrant(resourceId, x.Value, ResourceId(resourceTypeUser, x.User.Id))

SeqSet(q) == {q[i] : i \in 1..Len(q)}

NoDuplicates(q) == \A i \in 1..Len(q) : \A j \in 1..Len(q) : q[i] = q[j] => i = j

UnionOfPermissions(grants, resourceId, groups, users, roles) ==
    /\ SeqSet(PermissionGrants(grants)) =
            {GroupGrant(resourceId, x) : x \in SeqSet(InVocabulary(groups, roles))}
       \cup {UserGrant(resourceId, x) : x \in SeqSet(InVocabulary(users, roles))}
    /\ NoDuplicates(PermissionGrants(grants))

\* C5: the grants of a Project over all pages hold every in-vocabulary group
\* permission and every in-vocabulary user permission (the union of both), and no
\* (role, principal) pair more than once, also when a user holds a permission directly
\* and is a member of a group that holds one.
C5_ProjectGrantsAreTheUnion ==
    Finished("projectGrants") =>
        UnionOfPermissions(walk.out, TheProjectId, up.pgroups, up.pusers, projectPermissions)

\* group 1 holds a role, and its member, user 1, holds the same role directly
C5_Witness ==
    /\ Finished("projectGrants")
    /\ Len(up.pgroups) > 0 /\ Len(up.pusers) > 0
    /\ up.pgroups[1].Value = roleRead
    /\ up.pusers[1].Value = roleRead
    /\ up.pusers[1].User \in SeqSet(up.pgroups[1].Group.Members)
    /\ Len(PermissionGrants(walk.out)) >= 2

FetchedPage(f) ==
    SubSeq(Collection(f.ep), (PageNumber(f) - 1) * f.limit + 1,
           IF UpstreamHasMore(f) THEN PageNumber(f) * f.limit ELSE Len(Collection(f.ep)))

Vocabulary(op) == IF op = "projectGrants" THEN projectPermissions ELSE repositoryRoles

InVocabularyCount(page, op) ==
    Cardinality({i \in 1..Len(page) :
        \E k \in 1..Len(Vocabulary(op)) : page[i].Value = Vocabulary(op)[k]})

\* C7: every permission grant of a Grants call carries a role of the vocabulary of
\* its resource type (project: read, write, create-repo, admin; repository: read,
\* write, admin); a record with any other value yields no grant and no error, and
\* the other records of its page are still emitted.
C7_RolesFromVocabulary ==
    Succeeded /\ last.op \in PhasedOps =>
        /\ \A i \in 1..Len(last.res) :
              last.res[i].entitlement # repoEntitlement =>
                 \E k \in 1..Len(Vocabulary(last.op)) :
                    last.res[i].entitlement = Vocabulary(last.op)[k]
        /\ \A i \in 1..Len(last.fetch) :
              last.fetch[i].ep \in {"pgroups", "pusers", "rgroups", "rusers"} =>
                 Len(last.res) = InVocabularyCount(FetchedPage(last.fetch[i]), last.op)

\* a page holding a record with the value none and a record with a role: one grant
C7_Witness ==
    /\ Succeeded
    /\ last.op = "repositoryGrants"
    /\ Len(last.fetch) = 1
    /\ last.fetch[1].ep = "rusers"
    /\ \E i \in 1..Len(FetchedPage(last.fetch[1])) :
          FetchedPage(last.fetch[1])[i].Value = roleNone
    /\ Len(last.res) = 1

-----------------------------------------------------------------------------
\* The composite identifiers on their own: components are composed and the result
\* decomposed, and strings of any segment count are decomposed.

RECURSIVE Strings(_)
Strings(n) ==
    IF n = 0 THEN {<<>>}
    ELSE Strings(n - 1) \cup {Append(x, a) : x \in Strings(n - 1), a \in {"a", "b"}}

\* separator-free components
Components == Strings(MaxIdLen)

\* strings of 1..MaxSegments segments, each segment empty or not
RECURSIVE Segmented(_)
Segmented(n) ==
    IF n = 1 THEN {<<>>, <<"a">>}
    ELSE {x \o <<Sep>> \o y : x \in Segmented(n - 1), y \in {<<>>, <<"a">>}}

RawIds == UNION {Segmented(n) : n \in 1..MaxSegments}

SegmentCount(raw) == Cardinality({i \in 1..Len(raw) : raw[i] = Sep}) + 1

InitIds ==
    /\ pageSize = 1
    /\ up = BaseUp
    /\ allow = {}
    /\ scope = NoScope
    /\ workspaceIDs = {}
    /\ walk = IdleWalk("none", NoTarget)
    /\ hist = {}
    /\ last = NoCall
    /\ perms = NoMutation
    /\ cfg = NoConfig
    /\ \/ \E w \in Components, p \in Components, k \in Components, r \in Components :
            ids = [NoIds EXCEPT !.w = w, !.p = p, !.k = k, !.r = r]
       \/ \E raw \in RawIds : ids = [NoIds EXCEPT !.raw = raw]

\* each behaviour applies one function to the inputs it started with
IdsUnchanged ==
    /\ ids.op = "none"
    /\ UNCHANGED <<pageSize, up, scope, workspaceIDs, allow, walk, hist, last, perms, cfg>>

RoundTripProject ==
    /\ LET raw == ComposeProjectId(ids.w, ids.p, ids.k)
           d == DecomposeProjectId(raw)
       IN  ids' = [ids EXCEPT !.op = "roundtrip_project", !.composed = raw, !.err = d.err,
                              !.parts = <<d.ws, d.pid, d.key>>]
    /\ IdsUnchanged

RoundTripRepository ==
    /\ LET raw == ComposeRepositoryId(ComposeProjectId(ids.w, ids.p, ids.k), ids.r)
           d == DecomposeRepositoryId(raw)
       IN  ids' = [ids EXCEPT !.op = "roundtrip_repository", !.composed = raw, !.err = d.err,
                              !.parts = <<d.project, d.repo>>]
    /\ IdsUnchanged

RoundTripGroup ==
    /\ LET raw == ComposedGroupId(ids.w, ids.k)
           d == DecomposeGroupId(raw)
       IN  ids' = [ids EXCEPT !.op = "roundtrip_group", !.composed = raw, !.err = d.err,
                              !.parts = <<d.ws, d.slug>>]
    /\ IdsUnchanged

DecomposeProject ==
    /\ LET d == DecomposeProjectId(ids.raw) IN
        ids' = [ids EXCEPT !.op = "decompose_project", !.err = d.err,
                           !.parts = <<d.ws, d.pid, d.key>>]
    /\ IdsUnchanged

DecomposeRepository ==
    /\ LET d == DecomposeRepositoryId(ids.raw) IN
        ids' = [ids EXCEPT !.op = "decompose_repository", !.err = d.err,
                           !.parts = <<d.project, d.repo>>]
    /\ IdsUnchanged

DecomposeGroup ==
    /\ LET d == DecomposeGroupId(ids.raw) IN
        ids' = [ids EXCEPT !.op = "decompose_group", !.err = d.err,
                           !.parts = <<d.ws, d.slug>>]
    /\ IdsUnchanged

NextIds ==
    \/ RoundTripProject
    \/ RoundTripRepository
    \/ RoundTripGroup
    \/ DecomposeProject
    \/ DecomposeRepository
    \/ DecomposeGroup

SpecIds == InitIds /\ [][NextIds]_vars

\* C9: composite identifiers round-trip: for separator-free components,
\* decomposing a composed project id gives back (workspace, project, key),
\* decomposing a composed repository id gives back (composed project id, repository)
\* and decomposing a composed group id gives back (workspace, slug), without error.
C9_IdsRoundTrip ==
    /\ ids.op = "roundtrip_project" =>
         ids.err = "" /\ ids.parts = <<ids.w, ids.p, ids.k>>
    /\ ids.op = "roundtrip_repository" =>
         ids.err = "" /\ ids.parts = <<ComposeProjectId(ids.w, ids.p, ids.k), ids.r>>
    /\ ids.op = "roundtrip_group" =>
         ids.err = "" /\ ids.parts = <<ids.w, ids.k>>

\* a repository id of four non-empty, different components went round
C9_Witness ==
    /\ ids.op = "roundtrip_repository"
    /\ Len(ids.w) = MaxIdLen /\ Len(ids.p) > 0 /\ Len(ids.k) > 0 /\ Len(ids.r) > 0
    /\ ids.w # ids.p /\ ids.p # ids.r
    /\ ids.err = ""
    /\ ids.parts[2] = ids.r

-----------------------------------------------------------------------------
\* The write path: Grant and Revoke calls against the upstream permission state.

TheGroupId == ComposedGroupId(W1, GroupRec(1).Slug)

\* principals: the user, the group by its composite id, the group by ids with one
\* and with three segments, and a resource that is neither user nor group
Principals ==
    {ResourceId(resourceTypeUser, UserRec(1).Id),
     ResourceId(resourceTypeUserGroup, TheGroupId),
     ResourceId(resourceTypeUserGroup, GroupRec(1).Slug),
     ResourceId(resourceTypeUserGroup, TheGroupId \o <<Sep, "x">>),
     ResourceId(resourceTypeProject, TheProjectId)}

EntitlementId(type, resource, slug) == <<type>> \o <<Sep>> \o resource \o <<Sep>> \o slug

Slugs == {roleRead, roleWrite, roleCreate, roleAdmin, roleNone, <<"owner">>, repoEntitlement}

ProjectEntitlements ==
    {EntitlementId(resourceTypeProject, r, sl) : r \in {TheProjectId, ShortProjectId},
                                                 sl \in Slugs}

RepositoryEntitlements ==
    {EntitlementId(resourceTypeRepository, r, sl) :
        r \in {TheRepositoryId, ShortRepositoryId}, sl \in Slugs}

UserGroupEntitlements ==
    {EntitlementId(resourceTypeUserGroup, r, memberEntitlement) :
        r \in {TheGroupId, TheGroupId \o <<Sep, "x">>, GroupRec(1).Slug}}

Fails == {"none", "read", "write"}

\* upstream before the first Grant / Revoke: nothing granted, or the user and the
\* group hold read on the project and on the repository and the user is a member of
\* the group
Granted ==
    [pusers |-> [u \in KnownUsers |-> roleRead], pgroups |-> [g \in KnownGroups |-> roleRead],
     rusers |-> [u \in KnownUsers |-> roleRead], rgroups |-> [g \in KnownGroups |-> roleRead],
     members |-> KnownUsers]

InitialPermissions == {NoPermissions, Granted}

InitMutate ==
    /\ pageSize = 1
    /\ up = BaseUp
    /\ allow = {}
    /\ scope = NoScope
    /\ workspaceIDs = {}
    /\ walk = IdleWalk("none", NoTarget)
    /\ hist = {}
    /\ last = NoCall
    /\ ids = NoIds
    /\ cfg = NoConfig
    /\ \E u \in InitialPermissions : perms = [NoMutation EXCEPT !.up = u]

Mutate(op, principal, entitlementId, fail, o) ==
    /\ perms.n < MaxOps
    /\ perms' = [up |-> o.up, n |-> perms.n + 1,
                 call |-> [op |-> op, principal |-> principal,
                           entitlement |-> entitlementId, fail |-> fail, err |-> o.err,
                           calls |-> o.calls, before |-> perms.up,
                           repeat |-> /\ perms.call.op = op
                                      /\ perms.call.principal = principal
                                      /\ perms.call.entitlement = entitlementId
                                      /\ perms.call.err = ""]]
    /\ UNCHANGED <<pageSize, up, scope, workspaceIDs, allow, walk, hist, last, ids, cfg>>

ProjectGrant ==
    \E principal \in Principals, e \in ProjectEntitlements, fail \in Fails :
        Mutate("projectGrant", principal, e, fail, projectGrant(perms.up, principal, e, fail))

ProjectRevoke ==
    \E principal \in Principals, e \in ProjectEntitlements, fail \in Fails :
        Mutate("projectRevoke", principal, e, fail,
               projectRevoke(perms.up, principal, e, fail))

RepositoryGrant ==
    \E principal \in Principals, e \in RepositoryEntitlements, fail \in Fails :
        Mutate("repositoryGrant", principal, e, fail,
               repositoryGrant(perms.up, principal, e, fail))

RepositoryRevoke ==
    \E principal \in Principals, e \in RepositoryEntitlements, fail \in Fails :
        Mutate("repositoryRevoke", principal, e, fail,
               repositoryRevoke(perms.up, principal, e, fail))

UserGroupGrant ==
    \E principal \in Principals, e \in UserGroupEntitlements, fail \in Fails :
        Mutate("userGroupGrant", principal, e, fail,
               userGroupGrant(perms.up, principal, e, fail))

UserGroupRevoke ==
    \E principal \in Principals, e \in UserGroupEntitlements, fail \in Fails :
        Mutate("userGroupRevoke", principal, e, fail,
               userGroupRevoke(perms.up, principal, e, fail))

NextMutate ==
    \/ ProjectGrant
    \/ ProjectRevoke
    \/ RepositoryGrant
    \/ RepositoryRevoke
    \/ UserGroupGrant
    \/ UserGroupRevoke

SpecMutate == InitMutate /\ [][NextMutate]_vars

\* Properties of the write path (checked under SpecMutate).

GrantCalled == perms.call.op \in {"projectGrant", "repositoryGrant"}

\* the slug an entitlement id ends in, and the resource id between type and slug
SlugOf(entitlementId) == <<entitlementId[Len(entitlementId)]>>
ResourceOf(entitlementId) == SubSeq(entitlementId, 3, Len(entitlementId) - 2)

RoleSetOf(op) ==
    IF op \in {"projectGrant", "projectRevoke"}
    THEN {roleRead, roleWrite, roleCreate, roleAdmin}
    ELSE {roleRead, roleWrite, roleAdmin}

SlugOutsideRoleSet == SlugOf(perms.call.entitlement) \notin RoleSetOf(perms.call.op)

Mutating(calls) == {i \in 1..Len(calls) : calls[i].method \in {"PUT", "DELETE"}}

FailsWithoutMutation ==
    /\ perms.call.err # ""
    /\ Mutating(perms.call.calls) = {}
    /\ perms.up = perms.call.before

\* C8 (as stated): a Grant whose slug is outside the role set of the target resource
\* type fails with the unsupported-role error and makes no mutating call, so the
\* upstream permission state is unchanged.
C8_UnsupportedRoleError ==
    GrantCalled /\ SlugOutsideRoleSet =>
        /\ perms.call.err = "unsupported_role"
        /\ FailsWithoutMutation

PrincipalGrantable ==
    perms.call.principal.type \in {resourceTypeUser, resourceTypeUserGroup}

WellFormedTarget ==
    SegmentCount(ResourceOf(perms.call.entitlement)) =
        IF perms.call.op = "projectGrant" THEN 3 ELSE 4

\* the lookup of the principal's current permission that a repository Grant makes
\* before it checks the role
LookupSucceeds ==
    /\ perms.call.fail # "read"
    /\ perms.call.principal \in
          {ResourceId(resourceTypeUser, UserRec(1).Id),
           ResourceId(resourceTypeUserGroup, TheGroupId)}

\* C8 (amended): a Grant whose slug is outside the role set of the target resource
\* type fails and makes no mutating call, so the upstream permission state is
\* unchanged; the error is the unsupported-role error when the principal is a user or
\* a group and the entitlement names a well-formed resource id, except that a project
\* Grant of the slug "repository" fails with the error that repository memberships
\* are not supported, and a repository Grant looks the principal's permission up
\* first and returns the error of that lookup when it fails.
C8_UnsupportedRoleFails ==
    GrantCalled /\ SlugOutsideRoleSet =>
        /\ FailsWithoutMutation
        /\ PrincipalGrantable /\ WellFormedTarget =>
            /\ perms.call.op = "projectGrant" =>
                 perms.call.err = IF SlugOf(perms.call.entitlement) = repoEntitlement
                                  THEN "repository_membership_not_supported"
                                  ELSE "unsupported_role"
            /\ perms.call.op = "repositoryGrant" /\ LookupSucceeds =>
                 perms.call.err = "unsupported_role"
            /\ perms.call.op = "repositoryGrant" /\ ~LookupSucceeds =>
                 perms.call.err # "unsupported_role"

\* a repository Grant of an unknown role to the user, after the user was granted a
\* role: the lookup is made, the role is refused, the permission stays
C8_Witness ==
    /\ perms.call.op = "repositoryGrant"
    /\ perms.call.principal = ResourceId(resourceTypeUser, UserRec(1).Id)
    /\ SlugOf(perms.call.entitlement) = <<"owner">>
    /\ perms.call.err = "unsupported_role"
    /\ Len(perms.call.calls) = 1
    /\ perms.up.rusers[UserRec(1).Id] = roleRead

\* the ids a Grant / Revoke call received: the resource id of the entitlement and,
\* for a group principal of a project or repository call, the group id
WantedSegments(op) ==
    IF op \in {"projectGrant", "projectRevoke"} THEN 3
    ELSE IF op \in {"repositoryGrant", "repositoryRevoke"} THEN 4
    ELSE 2

ReceivedMalformedId ==
    /\ perms.call.op # "none"
    /\ \/ SegmentCount(ResourceOf(perms.call.entitlement)) # WantedSegments(perms.call.op)
       \/ /\ perms.call.principal.type = resourceTypeUserGroup
          /\ SegmentCount(perms.call.principal.id) # 2

\* C10 (as stated): decomposition rejects every string with the wrong segment count
\* (project ids need exactly 3 segments, group ids 2, repository ids 4), and a Grant
\* or Revoke that receives such an id returns an error without any upstream call.
C10_MalformedIdsRejected ==
    /\ \A raw \in RawIds :
        /\ DecomposeProjectId(raw).err = "" <=> SegmentCount(raw) = 3
        /\ DecomposeGroupId(raw).err = "" <=> SegmentCount(raw) = 2
        /\ DecomposeRepositoryId(raw).err = "" <=> SegmentCount(raw) = 4
    /\ ReceivedMalformedId => perms.call.err # "" /\ Len(perms.call.calls) = 0


-----------------------------------------------------------------------------
\* EntitlementResolver: Entitlements of each resource type.  An entitlement is the
\* resource it belongs to, its slug, its kind and the principal types it can be
\* granted to.

NewAssignmentEntitlement(resource, slug, grantableTo) ==
    [resource |-> resource, slug |-> slug, purpose |-> "assignment",
     grantableTo |-> grantableTo]

NewPermissionEntitlement(resource, slug, grantableTo) ==
    [resource |-> resource, slug |-> slug, purpose |-> "permission",
     grantableTo |-> grantableTo]

workspaceEntitlements(resource, token) ==
    Answer(<<NewAssignmentEntitlement(resource, memberEntitlement, {resourceTypeUser})>>,
           EmptyToken, <<>>)

\* mutant: the role loop runs over the project roles
repositoryEntitlements_ProjectRoles(resource, token) ==
    Answer(MapSeq(projectPermissions,
                  LAMBDA role : NewPermissionEntitlement(
                                    resource, role, {resourceTypeUser, resourceTypeUserGroup})),
           EmptyToken, <<>>)

repositoryEntitlements(resource, token) ==
    Answer(MapSeq(repositoryRoles,
                  LAMBDA role : NewPermissionEntitlement(
                                    resource, role, {resourceTypeUser, resourceTypeUserGroup})),
           EmptyToken, <<>>)

projectEntitlements(resource, token) ==
    Answer(<<NewAssignmentEntitlement(resource, repoEntitlement, {resourceTypeRepository})>>
           \o MapSeq(projectPermissions,
                     LAMBDA permission : NewPermissionEntitlement(
                                    resource, permission,
                                    {resourceTypeUser, resourceTypeUserGroup})),
           EmptyToken, <<>>)

userGroupEntitlements(resource, token) ==
    Answer(<<NewAssignmentEntitlement(resource, memberEntitlement, {resourceTypeUser})>>,
           EmptyToken, <<>>)

userEntitlements(resource, token) == Answer(<<>>, EmptyToken, <<>>)

\* the resources whose entitlements are asked for, and the tokens of the requests
EntitlementTargets ==
    {Target(resourceTypeWorkspace, WorkspaceRec(i).Id) : i \in 1..MaxRecs}
    \cup {Target(resourceTypeProject, TheProjectId),
          Target(resourceTypeProject, ShortProjectId)}
    \cup {Target(resourceTypeRepository, TheRepositoryId),
          Target(resourceTypeRepository, ShortRepositoryId)}
    \cup {Target(resourceTypeUserGroup, ComposedGroupId(W1, GroupRec(i).Slug)) :
              i \in 1..MaxRecs}
    \cup {Target(resourceTypeUser, UserRec(i).Id) : i \in 1..MaxRecs}

RequestTokens ==
    {EmptyToken, CorruptToken,
     BagMarshal(BagPush(EmptyBag, PageState(resourceTypeUser, <<>>, <<"2">>)))}

InitEntitlements ==
    /\ pageSize \in 1..MaxPageSize
    /\ up \in UpsFor("projectList") \cup UpsFor("userList")
    /\ \E t \in EntitlementTargets : walk = IdleWalk("entitlements", t)
    /\ allow = {}
    /\ scope = NoScope
    /\ workspaceIDs = {}
    /\ hist = {}
    /\ last = NoCall
    /\ perms = NoMutation
    /\ ids = NoIds
    /\ cfg = NoConfig

\* one Entitlements request for the resource walk.target
ListEntitlements(type, Handler(_, _)) ==
    /\ walk.target.type = type
    /\ \E token \in RequestTokens :
        last' = Call(type, token, Handler(ResourceId(type, walk.target.id), token),
                     FALSE, FALSE)
    /\ UNCHANGED <<pageSize, up, scope, workspaceIDs, allow, walk, hist, perms, ids, cfg>>

WorkspaceEntitlements == ListEntitlements(resourceTypeWorkspace, workspaceEntitlements)
ProjectEntitlementsList == ListEntitlements(resourceTypeProject, projectEntitlements)
RepositoryEntitlementsList == ListEntitlements(resourceTypeRepository, repositoryEntitlements)
UserGroupEntitlementsList == ListEntitlements(resourceTypeUserGroup, userGroupEntitlements)
UserEntitlements == ListEntitlements(resourceTypeUser, userEntitlements)

NextEntitlements ==
    \/ WorkspaceEntitlements
    \/ ProjectEntitlementsList
    \/ RepositoryEntitlementsList
    \/ UserGroupEntitlementsList
    \/ UserEntitlements

SpecEntitlements == InitEntitlements /\ [][NextEntitlements]_vars

\* the slugs the specification lists for each resource type
FixedSlugs(type) ==
    IF type = resourceTypeWorkspace THEN <<memberEntitlement>>
    ELSE IF type = resourceTypeProject
    THEN <<repoEntitlement, roleRead, roleWrite, roleCreate, roleAdmin>>
    ELSE IF type = resourceTypeRepository THEN <<roleRead, roleWrite, roleAdmin>>
    ELSE IF type = resourceTypeUserGroup THEN <<memberEntitlement>>
    ELSE <<>>

EntitlementsCalled == last.op \in {t.type : t \in EntitlementTargets}

\* C11: ListEntitlements returns a fixed list that depends only on the resource type
\* and makes no upstream call: workspace {member}; project {repository, read, write,
\* create-repo, admin}; repository {read, write, admin}; user group {member}; user
\* none; every entitlement belongs to the resource asked about, the repository
\* entitlement of a project is the only assignment among the project's; the call
\* succeeds for every token and always returns the empty next token.
C11_EntitlementsFixedPerType ==
    EntitlementsCalled =>
        /\ last.err = ""
        /\ last.next = EmptyToken
        /\ Len(last.fetch) = 0
        /\ MapSeq(last.res, LAMBDA e : e.slug) = FixedSlugs(last.op)
        /\ \A i \in 1..Len(last.res) :
              /\ last.res[i].resource = ResourceId(last.op, walk.target.id)
              /\ last.res[i].purpose = "assignment" <=>
                    last.res[i].slug \in {memberEntitlement, repoEntitlement}

\* the entitlements of a repository asked for with a token that does not decode
C11_Witness ==
    /\ last.op = resourceTypeRepository
    /\ last.token = CorruptToken
    /\ Len(last.res) = 3
    /\ Len(up.projects) > 0


-----------------------------------------------------------------------------
\* Scope resolution (checked under Spec).  A resolution is the Validate of a client
\* that holds no workspace ids yet, as after construction.

Resolved == last.op = "validate" /\ last.before = {}

\* the resolution of a user identity whose identity and workspace lookups succeeded
UserResolved == Resolved /\ ~last.failed /\ up.identity.Type = "user"

\* positions of the visible workspaces the allow-list admits
Candidates ==
    {i \in 1..Len(up.workspaces) : allow = {} \/ up.workspaces[i].Slug \in allow}

ProbesPass(i) == up.probe[i].kind = "ok"
ProbeDenied(i) == up.probe[i].kind \in {"denied", "status403"}
ProbeFatal(i) == ~ProbesPass(i) /\ ~ProbeDenied(i)

Passing == {up.workspaces[i].Id : i \in {c \in Candidates : ProbesPass(c)}}

NoFatalProbe == \A i \in Candidates : ~ProbeFatal(i)

\* C12: in user-scoped resolution a candidate workspace one of whose three probes is
\* answered permission-denied (by code or by a "status 403" message) is left out of
\* the Scope and the other workspaces are still resolved: when no probe fails
\* otherwise, the Scope is exactly the candidates whose probes all pass, and the
\* denial is not returned as an error.
C12_DeniedWorkspaceExcluded ==
    UserResolved /\ NoFatalProbe =>
        /\ workspaceIDs = Passing
        /\ last.err \in {"", "no_authenticated_workspaces"}
        /\ Passing # {} => last.err = ""

\* W1 passes its probes, the group listing of W2 is answered 403: the Scope is {W1}
C12_Witness ==
    /\ UserResolved
    /\ Len(up.workspaces) = 2
    /\ allow = {}
    /\ ProbesPass(1)
    /\ up.probe[2] = [kind |-> "status403", at |-> 1]
    /\ workspaceIDs = {W1}
    /\ last.err = ""

\* C13: in user-scoped resolution a probe failure on a candidate workspace that is
\* not permission-denied aborts the resolution: Validate returns that error, and the
\* failing workspace and the candidates after it are not in the Scope.
C13_OtherProbeErrorAborts ==
    UserResolved =>
        \A i \in Candidates :
            ProbeFatal(i) =>
                /\ last.err = up.probe[i].kind
                /\ \A j \in Candidates :
                      j >= i => up.workspaces[j].Id \notin workspaceIDs

\* the second of two workspaces fails a probe with another error after the first
\* passed
C13_Witness ==
    /\ UserResolved
    /\ Len(up.workspaces) = 2
    /\ Candidates = {1, 2}
    /\ ProbesPass(1)
    /\ ProbeFatal(2)
    /\ last.err = "error"

\* C14: user-scoped resolution that runs to its end fails with the
\* no-authenticated-workspaces error exactly when the Scope it leaves is empty, i.e.
\* when no candidate workspace passes its three probes; Validate returns success only
\* with a non-empty Scope.
C14_EmptyScopeUnauthenticated ==
    /\ UserResolved /\ NoFatalProbe =>
          /\ last.err = "no_authenticated_workspaces" <=> workspaceIDs = {}
          /\ workspaceIDs = {} <=> Passing = {}
    /\ Resolved /\ up.identity.Type = "user" /\ last.err = "" => workspaceIDs # {}
    /\ Resolved /\ last.err = "no_authenticated_workspaces" => workspaceIDs = {}

\* a workspace is visible and passes its probes, but the allow-list names another
C14_Witness ==
    /\ UserResolved
    /\ Len(up.workspaces) = 1
    /\ ProbesPass(1)
    /\ allow # {}
    /\ Candidates = {}
    /\ last.err = "no_authenticated_workspaces"
    /\ workspaceIDs = {}


\* the workspaces the connector operates over: the ids user-scoped resolution kept,
\* or the single workspace of a workspace-scoped credential
ScopeSet ==
    IF IsUserScoped(scope) THEN workspaceIDs
    ELSE IF IsWorkspaceScoped(scope) THEN {scope.id}
    ELSE {}

\* visible workspaces a non-empty allow-list leaves out
LeftOut == {i \in 1..Len(up.workspaces) : allow # {} /\ up.workspaces[i].Slug \notin allow}

ProbeRequests(fetch) ==
    {k \in 1..Len(fetch) : fetch[k].ep \in {ProbeNames[n] : n \in 1..Len(ProbeNames)}}

\* the last call (Validate or a workspace listing) probed the workspace
Probed(workspaceId) == \E k \in ProbeRequests(last.fetch) : last.fetch[k].ws = workspaceId

\* the workspace listing emitted the workspace, in the last call or earlier in the walk
Emitted(workspaceId) ==
    \/ /\ walk.op = "workspaceList"
       /\ \E k \in 1..Len(walk.out) : walk.out[k].id = workspaceId
    \/ /\ last.op = "workspaceList"
       /\ \E k \in 1..Len(last.res) : last.res[k].id = workspaceId

NeverEmittedNorProbed ==
    \A i \in LeftOut : ~Emitted(up.workspaces[i].Id) /\ ~Probed(up.workspaces[i].Id)

\* with an empty allow-list a user-scoped resolution probes every visible workspace
\* (up to a fatal probe) and keeps those that pass
EmptyAllowsAll ==
    UserResolved /\ allow = {} /\ NoFatalProbe =>
        /\ \A i \in 1..Len(up.workspaces) : Probed(up.workspaces[i].Id)
        /\ workspaceIDs = {up.workspaces[i].Id : i \in {c \in 1..Len(up.workspaces) :
                                                           ProbesPass(c)}}

\* C15 (as stated): with an empty allow-list every visible workspace is a candidate;
\* with a non-empty one a workspace whose slug is not listed never enters the Scope,
\* is never emitted by the workspace listing and is not probed.
C15_AllowListFiltersScope ==
    /\ EmptyAllowsAll
    /\ NeverEmittedNorProbed
    /\ \A i \in LeftOut : up.workspaces[i].Id \notin ScopeSet

\* C15 (amended): with an empty allow-list every visible workspace is a candidate;
\* with a non-empty one a workspace whose slug is not listed is never emitted by the
\* workspace listing, is not probed, and never enters the set of workspace ids that
\* user-scoped resolution keeps.  (The Scope of a workspace-scoped credential is its
\* own workspace whatever the allow-list says.)
C15_AllowListFiltersDiscovery ==
    /\ EmptyAllowsAll
    /\ NeverEmittedNorProbed
    /\ \A i \in LeftOut : up.workspaces[i].Id \notin workspaceIDs

\* two workspaces pass their probes, the allow-list names the second: a finished
\* listing emitted the second only, and the last call probed the second only
C15_Witness ==
    /\ Finished("workspaceList")
    /\ IsUserScoped(scope)
    /\ Len(up.workspaces) = 2
    /\ ProbesPass(1) /\ ProbesPass(2)
    /\ LeftOut = {1}
    /\ workspaceIDs = {up.workspaces[2].Id}
    /\ Emitted(up.workspaces[2].Id)
    /\ Probed(up.workspaces[2].Id)


\* Validate of a workspace/team-level identity whose identity lookup succeeded
TeamResolved == last.op = "validate" /\ ~last.failed /\ up.identity.Type = "team"

\* Validate fixes the Scope to the identity's workspace; its only request is the
\* identity lookup
ScopeFixedWithoutDiscovery ==
    TeamResolved =>
        /\ last.err = ""
        /\ IsWorkspaceScoped(scope)
        /\ ScopeSet = {up.identity.Id}
        /\ workspaceIDs = last.before
        /\ MapSeq(last.fetch, LAMBDA f : f.ep) = <<"user">>

\* a workspace listing from the empty token under a workspace-scoped credential whose
\* workspace upstream serves
ScopedListing ==
    /\ last.op = "workspaceList"
    /\ IsWorkspaceScoped(scope)
    /\ last.token = EmptyToken
    /\ ~last.failed
    /\ \E i \in 1..Len(up.workspaces) : up.workspaces[i].Id = scope.id

ScopeSlug == up.workspaces[CHOOSE i \in 1..Len(up.workspaces) :
                               up.workspaces[i].Id = scope.id].Slug

OneWorkspaceListed ==
    /\ last.err = ""
    /\ Len(last.res) = 1
    /\ last.res[1].type = resourceTypeWorkspace
    /\ last.res[1].id = scope.id
    /\ last.next = EmptyToken

\* C16 (as stated): for a workspace/team-level identity Validate succeeds by fixing
\* the Scope to the single workspace W, without discovery or probing, and the
\* workspace listing with the empty token returns exactly one resource, of id W, and
\* the empty next token.
C16_ScopedListingReturnsW ==
    /\ ScopeFixedWithoutDiscovery
    /\ ScopedListing => OneWorkspaceListed

\* C16 (amended): for a workspace/team-level identity Validate succeeds by fixing the
\* Scope to the single workspace W, without discovery or probing; the workspace
\* listing with the empty token looks W up with one request, probes nothing, and
\* returns the empty next token with exactly one resource, of id W, when the
\* allow-list is empty or names W's slug, and with no resource otherwise.
C16_ScopedListingReturnsAdmittedW ==
    /\ ScopeFixedWithoutDiscovery
    /\ ScopedListing =>
          /\ MapSeq(last.fetch, LAMBDA f : f.ep) = <<"workspace">>
          /\ IF allow = {} \/ ScopeSlug \in allow
             THEN OneWorkspaceListed
             ELSE last.err = "" /\ Len(last.res) = 0 /\ last.next = EmptyToken

\* a team credential for W1, an allow-list that names W1: the listing returned W1
C16_Witness ==
    /\ ScopedListing
    /\ up.identity = TeamIdentity
    /\ allow = {WorkspaceRec(1).Slug}
    /\ last.res = <<workspaceResource(WorkspaceRec(1))>>
    /\ walk.status = "done"


-----------------------------------------------------------------------------
\* Properties of Grant and Revoke (checked under SpecMutate), continued.

RevokeOps == {"projectRevoke", "repositoryRevoke", "userGroupRevoke"}

\* the last call is a Revoke that repeats, with no upstream failure, the Revoke
\* before it, which had succeeded
RevokedAgain ==
    /\ perms.call.op \in RevokeOps
    /\ perms.call.repeat
    /\ perms.call.fail = "none"

\* C17: revoking the same (principal, entitlement) grant twice in succession succeeds
\* both times, for project permissions, repository permissions and user-group
\* membership: the second Revoke finds the grant absent and returns without error.
C17_RevokeTwiceSucceeds == RevokedAgain => perms.call.err = ""


\* a membership Grant of a user on the group, by a well-formed entitlement id
MembershipGrant ==
    /\ perms.call.op = "userGroupGrant"
    /\ perms.call.principal.type = resourceTypeUser
    /\ ResourceOf(perms.call.entitlement) = TheGroupId

MembersRead == UpCall("GET", "members", GroupRec(1).Slug)
MemberAdded == UpCall("PUT", "members", perms.call.principal.id)

\* C18: a user-group membership Grant first reads the group's members with one list
\* call; when the user is already a member it fails with the already-granted error
\* and makes no add-member call; otherwise it makes exactly one add-member call for
\* that user and group, which adds the user when upstream accepts it.
C18_MembershipGrantChecksFirst ==
    MembershipGrant =>
        /\ Len(perms.call.calls) >= 1
        /\ perms.call.calls[1] = MembersRead
        /\ IF perms.call.fail = "read"
           THEN /\ perms.call.err # ""
                /\ perms.call.calls = <<MembersRead>>
                /\ perms.up = perms.call.before
           ELSE IF perms.call.principal.id \in perms.call.before.members
           THEN /\ perms.call.err = "already_member"
                /\ perms.call.calls = <<MembersRead>>
                /\ perms.up = perms.call.before
           ELSE /\ perms.call.calls = <<MembersRead, MemberAdded>>
                /\ perms.call.fail = "none" =>
                      /\ perms.call.err = ""
                      /\ perms.up = [perms.call.before EXCEPT
                                        !.members = @ \cup {perms.call.principal.id}]
                /\ perms.call.fail = "write" =>
                      perms.call.err # "" /\ perms.up = perms.call.before

\* the user is granted membership twice: the second Grant fails after its read
C18_Witness ==
    /\ MembershipGrant
    /\ perms.n = 2
    /\ perms.call.before.members = {UserRec(1).Id}
    /\ perms.call.before.pusers[UserRec(1).Id] = roleNone
    /\ perms.call.err = "already_member"
    /\ Len(perms.call.calls) = 1

\* a project or repository Grant of an in-vocabulary role to the user or to the group
\* (by the group's composite id) on the project / repository upstream holds
PermissionGrant ==
    /\ GrantCalled
    /\ perms.call.principal \in {ResourceId(resourceTypeUser, UserRec(1).Id),
                                 ResourceId(resourceTypeUserGroup, TheGroupId)}
    /\ ResourceOf(perms.call.entitlement) =
          IF perms.call.op = "projectGrant" THEN TheProjectId ELSE TheRepositoryId
    /\ ~SlugOutsideRoleSet

\* the upstream record a permission Grant is about
GrantStore ==
    IF perms.call.op = "projectGrant"
    THEN IF perms.call.principal.type = resourceTypeUser THEN "pusers" ELSE "pgroups"
    ELSE IF perms.call.principal.type = resourceTypeUser THEN "rusers" ELSE "rgroups"

GrantWho ==
    IF perms.call.principal.type = resourceTypeUser THEN perms.call.principal.id
    ELSE GroupRec(1).Slug

LookupThenSet ==
    /\ Len(perms.call.calls) >= 1
    /\ perms.call.calls[1].method = "GET"
    /\ perms.call.fail = "read" =>
          /\ perms.call.err # ""
          /\ Len(perms.call.calls) = 1
          /\ perms.up = perms.call.before
    /\ perms.call.fail # "read" =>
          /\ Len(perms.call.calls) = 2
          /\ perms.call.calls[2].method = "PUT"
          /\ perms.call.calls[2].store = GrantStore
    /\ perms.call.fail = "none" =>
          /\ perms.call.err = ""
          /\ perms.up = [perms.call.before EXCEPT
                            ![GrantStore][GrantWho] = SlugOf(perms.call.entitlement)]
    /\ perms.call.fail = "write" => perms.call.err # "" /\ perms.up = perms.call.before

\* C19: a project or repository Grant with a valid principal and an in-vocabulary
\* role reads the principal's current permission with one lookup and then issues
\* exactly one set-permission call carrying the requested role, whatever the current
\* value is (none, the same role, another role), and returns success when that call
\* succeeds.
C19_GrantLooksUpThenSets == PermissionGrant => LookupThenSet

\* C20: Grant and Revoke reject a principal whose type is outside the entitlement's
\* grantable-to set before anything else (user-group membership: users only; project
\* and repository permissions: users and groups): the call returns the
\* principal error, whatever the entitlement id, and makes no upstream call.
C20_WrongPrincipalRejectedFirst ==
    /\ perms.call.op # "none"
    /\ perms.call.principal.type \notin
          (IF perms.call.op \in {"userGroupGrant", "userGroupRevoke"}
           THEN {resourceTypeUser}
           ELSE {resourceTypeUser, resourceTypeUserGroup})
    => /\ perms.call.err = "principal_not_grantable"
       /\ Len(perms.call.calls) = 0
       /\ perms.up = perms.call.before

\* a group is offered as a principal of a membership Grant on a group where the
\* user is a member
C20_Witness ==
    /\ perms.call.op = "userGroupGrant"
    /\ perms.call.principal = ResourceId(resourceTypeUserGroup, TheGroupId)
    /\ ResourceOf(perms.call.entitlement) = TheGroupId
    /\ perms.call.fail = "none"
    /\ perms.call.before.members # {}
    /\ perms.call.err = "principal_not_grantable"


-----------------------------------------------------------------------------
\* Page tokens that do not decode, and the cursor of the empty token (checked under
\* Spec).

\* the type of the frame each handler asks parsePageToken to start from
FrameType(op) ==
    IF op = "workspaceList" THEN resourceTypeWorkspace
    ELSE IF op \in {"projectList", "projectGrants"} THEN resourceTypeProject
    ELSE IF op \in {"repositoryList", "repositoryGrants"} THEN resourceTypeRepository
    ELSE resourceTypeUser

\* the last call is a List or Grants call that enumerates an upstream collection page
\* by page: a child listing under a parent, the workspace listing of a user-scoped
\* client, or a Grants call
PaginatedCall ==
    /\ last.op \in Ops
    /\ last.op = "workspaceList" => IsUserScoped(scope)
    /\ last.op \in {"projectList", "repositoryList", "userList"} => ~walk.target.nil

SingleFrame(bag, type) ==
    /\ BagDepth(bag) = 1
    /\ BagResourceTypeID(bag) = type

\* C21: a non-empty page token that is not a serialized cursor makes every paginated
\* List and Grants call fail with the decode error, with no resources or grants, the
\* empty next token and no upstream request; the empty token never fails to decode
\* and gives a cursor whose single frame has the type the handler enumerates (for the
\* Grants of a project or repository: the type of that resource, which the first call
\* expands into its phases).
C21_UndecodableTokenRejected ==
    /\ PaginatedCall /\ last.token = CorruptToken =>
          /\ last.err = "invalid_token"
          /\ Len(last.res) = 0
          /\ last.next = EmptyToken
          /\ Len(last.fetch) = 0
    /\ PaginatedCall /\ last.token = EmptyToken =>
          /\ last.err # "invalid_token"
          /\ LET p == parsePageToken(last.token, FrameType(last.op), <<>>) IN
                p.err = "" /\ SingleFrame(p.bag, FrameType(last.op))
          /\ /\ last.op \notin {"projectGrants", "repositoryGrants"}
             /\ last.err = ""
             /\ last.next # EmptyToken
             => SingleFrame(last.next.bag, FrameType(last.op))

\* a repository listing under a malformed parent id, asked with a token that does
\* not decode while upstream is failing: the decode error comes first
C21_Witness ==
    /\ last.op = "repositoryList"
    /\ walk.target.id = ShortProjectId
    /\ last.token = CorruptToken
    /\ last.failed
    /\ last.err = "invalid_token"


-----------------------------------------------------------------------------
\* Configuration: the schema constraints, validateConfig and getConnector

\* a configuration value is either absent (the empty string) or some text
FieldValues == {<<>>, <<"1">>}

\* the workspaces flag: no slug, or a list of slugs
WorkspacesValues == {<<>>, <<W1>>}

\* field.FieldsRequiredTogether: when one of the fields is present, all of them are
FieldsRequiredTogether(values) ==
    (\E i \in 1..Len(values) : values[i] # <<>>) =>
        (\A i \in 1..Len(values) : values[i] # <<>>)

\* configRelations: username with app-password, consumer-key with consumer-secret
configRelations(c) ==
    /\ FieldsRequiredTogether(<<c.username, c.password>>)
    /\ FieldsRequiredTogether(<<c.consumerId, c.consumerSecret>>)

\* validateConfig (and the same test at the head of getConnector): the error when
\* no credential set is complete
validateConfig(c) ==
    LET accessTokenNotSet == c.token = <<>>
        basicNotSet       == c.username = <<>> \/ c.password = <<>>
        oauthNotSet       == c.consumerId = <<>> \/ c.consumerSecret = <<>>
    IN  IF accessTokenNotSet /\ basicNotSet /\ oauthNotSet
        THEN "credentials_required" ELSE ""

\* constructAuth: the credentials chosen, or the error when no kind is named
constructAuth(c) ==
    IF c.token # <<>> THEN [err |-> "", auth |-> "bearer"]
    ELSE IF c.username # <<>> THEN [err |-> "", auth |-> "basic"]
    ELSE IF c.consumerId # <<>> THEN [err |-> "", auth |-> "oauth2"]
    ELSE [err |-> "invalid_config", auth |-> "none"]

\* getConnector up to the construction of the connector
getConnector(c) ==
    IF validateConfig(c) # "" THEN [err |-> validateConfig(c), auth |-> "none"]
    ELSE constructAuth(c)

InitConfig ==
    /\ pageSize = 1
    /\ up = BaseUp
    /\ allow = {}
    /\ scope = NoScope
    /\ workspaceIDs = {}
    /\ walk = IdleWalk("none", NoTarget)
    /\ hist = {}
    /\ last = NoCall
    /\ perms = NoMutation
    /\ ids = NoIds
    /\ \E t \in FieldValues, u \in FieldValues, p \in FieldValues, k \in FieldValues,
          s \in FieldValues, w \in WorkspacesValues :
        cfg = [token |-> t, username |-> u, password |-> p, consumerId |-> k,
               consumerSecret |-> s, workspaces |-> w, stage |-> "loaded", err |-> "",
               auth |-> "none"]

ConfigUnchanged ==
    UNCHANGED <<pageSize, up, scope, workspaceIDs, allow, walk, hist, last, perms, ids>>

\* the command validates the loaded configuration against ConfigurationSchema
SchemaValidate ==
    /\ cfg.stage = "loaded"
    /\ cfg' = [cfg EXCEPT !.stage = "schema",
                          !.err = IF configRelations(cfg) THEN "" ELSE "constraint_violated"]
    /\ ConfigUnchanged

\* the command built by cli.NewCmd runs validateConfig on the loaded configuration
ValidateConfig ==
    /\ cfg.stage = "loaded"
    /\ cfg' = [cfg EXCEPT !.stage = "validated", !.err = validateConfig(cfg)]
    /\ ConfigUnchanged

\* a configuration that passed the validation of its command reaches getConnector
GetConnector ==
    /\ cfg.stage \in {"schema", "validated"}
    /\ cfg.err = ""
    /\ LET r == getConnector(cfg) IN
        cfg' = [cfg EXCEPT !.stage = "connector", !.err = r.err, !.auth = r.auth]
    /\ ConfigUnchanged

NextConfig == SchemaValidate \/ ValidateConfig \/ GetConnector

SpecConfig == InitConfig /\ [][NextConfig]_vars

\* the credential kinds a configuration names, and those it supplies completely
KindsNamed ==
    {k \in {"token", "basic", "oauth"} :
        \/ k = "token" /\ cfg.token # <<>>
        \/ k = "basic" /\ (cfg.username # <<>> \/ cfg.password # <<>>)
        \/ k = "oauth" /\ (cfg.consumerId # <<>> \/ cfg.consumerSecret # <<>>)}

KindsComplete ==
    {k \in {"token", "basic", "oauth"} :
        \/ k = "token" /\ cfg.token # <<>>
        \/ k = "basic" /\ cfg.username # <<>> /\ cfg.password # <<>>
        \/ k = "oauth" /\ cfg.consumerId # <<>> /\ cfg.consumerSecret # <<>>}

\* validation is over: the configuration was rejected, or reached the connector
ConfigSettled == cfg.stage = "connector" \/ (cfg.stage \in {"schema", "validated"} /\ cfg.err # "")

ConfigAccepted == cfg.stage = "connector" /\ cfg.err = ""

\* the configuration that sets nothing, and the one that sets every credential field
ConfigEmpty == KindsNamed = {} /\ cfg.workspaces = <<>>

ConfigAllKinds == KindsComplete = {"token", "basic", "oauth"}

\* C22: configuration validation accepts only a configuration that supplies exactly
\* one complete credential set, and accepts every configuration that supplies one
\* complete set and nothing of the other kinds, with or without workspaces; it rejects
\* the empty configuration and the configuration that sets all credential kinds
C22_OneCredentialSetAccepted ==
    ConfigSettled =>
        /\ ConfigAccepted => Cardinality(KindsComplete) = 1
        /\ (Cardinality(KindsComplete) = 1 /\ KindsNamed = KindsComplete) => ConfigAccepted
        /\ ConfigEmpty => ~ConfigAccepted
        /\ ConfigAllKinds => ~ConfigAccepted


-----------------------------------------------------------------------------
\* Scope is written by Validate alone

-----------------------------------------------------------------------------
\* An upstream error aborts the page it strikes and nothing else

\* the last call sent a request upstream and the upstream failed it
UpstreamFailed == last.op \in Ops /\ last.failed /\ Len(last.fetch) > 0

\* what the connector answers, upstream permitting, to the token of the last call
AnswerToLastToken == Handle(last.op, walk.target, last.token, FALSE)

\* C24: an upstream error during a List or Grants page aborts that page only: the
\* call returns the error with no results and an empty next token, the caller's
\* cursor stays where it was, and so does everything the answer to a token is
\* computed from (page size, upstream collections, allow-list, scope, workspace ids),
\* so that the same token is answered as it would have been had the call not failed
C24_UpstreamErrorAbortsPageOnly ==
    /\ [](UpstreamFailed =>
            /\ last.err = "upstream"
            /\ Len(last.res) = 0
            /\ last.next = EmptyToken)
    /\ [][UpstreamFailed' =>
            /\ walk' = walk
            /\ hist' = hist
            /\ UNCHANGED <<pageSize, up, allow, scope, workspaceIDs>>]_vars

\* the second page of a project listing fails upstream after the first was emitted
C24_Witness ==
    /\ UpstreamFailed
    /\ last.op = "projectList"
    /\ last.token.kind = "json"
    /\ Len(walk.out) > 0
    /\ walk.token = last.token
    /\ AnswerToLastToken.err = "" /\ Len(AnswerToLastToken.res) > 0


-----------------------------------------------------------------------------
\* Membership grants of a workspace and of a user group

MembershipOps == {"workspaceGrants", "userGroupGrants"}

InitMembership ==
    /\ pageSize \in 1..MaxPageSize
    /\ up \in UpsFor("workspaceGrants")
    /\ allow = {}
    /\ \/ walk = IdleWalk("workspaceGrants", Target(resourceTypeWorkspace, W1))
       \/ walk = IdleWalk("userGroupGrants",
                          Target(resourceTypeUserGroup,
                                 userGroupResource(ListedGroup, W1).id))
    /\ scope = NoScope
    /\ workspaceIDs = {}
    /\ hist = {}
    /\ last = NoCall
    /\ perms = NoMutation
    /\ ids = NoIds
    /\ cfg = NoConfig

UserGroupGrants == Step("userGroupGrants")

NextMembership ==
    \/ StartWalk
    \/ WorkspaceGrants
    \/ UserGroupGrants
    \/ Resume
    \/ ForeignToken

SpecMembership == InitMembership /\ [][NextMembership]_vars

\* the member grants of the resource of the walk, one per user, in order
MemberGrants(users) ==
    [i \in 1..Len(users) |->
        NewGrant(walk.target.id, memberEntitlement,
                 ResourceId(resourceTypeUser, users[i].Id))]

\* a request of the paginated kind: it carries the page size and the page asked for
PaginatedRequest(f) == f.limit = pageSize /\ f.ep = "members"

\* a membership Grants call that returned without error
MembershipListed == last.op \in MembershipOps /\ last.err = ""

\* the grants of last.res are grants of members, each at most once
OnlyMemberGrants ==
    /\ \A i \in 1..Len(last.res) :
        \E j \in 1..Len(up.members) : last.res[i] = MemberGrants(up.members)[j]
    /\ \A i \in 1..Len(last.res), j \in 1..Len(last.res) :
        last.res[i] = last.res[j] => i = j

\* the walk over, every member has its grant, once
WalkEmitsMembers ==
    (walk.op \in MembershipOps /\ walk.status = "done") =>
        walk.out = MemberGrants(up.members)

\* C25 (as stated): ListGrants for the member entitlement of a workspace or of a
\* user group reads the members with one paginated membership-list request per call,
\* emits one member grant per member and nothing else, and returns no grants and an
\* empty next token when there is no member
C25_OnePaginatedMembershipCall ==
    /\ MembershipListed =>
        /\ Len(last.fetch) = 1 /\ PaginatedRequest(last.fetch[1])
        /\ OnlyMemberGrants
        /\ Len(up.members) = 0 => (Len(last.res) = 0 /\ last.next = EmptyToken)
    /\ WalkEmitsMembers

\* C25 (amended): for a workspace, one paginated membership-list request per call;
\* for a user group, no request at all: the grants are those of the member ids the
\* group resource carries in its profile, all in one page with an empty next token,
\* whatever the page token.  Either way one member grant per member and nothing
\* else, and no grants and an empty next token when there is no member
C25_MembersFromCallOrProfile ==
    /\ (MembershipListed /\ last.op = "workspaceGrants") =>
        (Len(last.fetch) = 1 /\ PaginatedRequest(last.fetch[1]))
    /\ (last.op = "userGroupGrants") =>
        /\ last.err = ""
        /\ Len(last.fetch) = 0
        /\ last.next = EmptyToken
        /\ last.res = MemberGrants(up.members)
    /\ MembershipListed =>
        /\ OnlyMemberGrants
        /\ Len(up.members) = 0 => (Len(last.res) = 0 /\ last.next = EmptyToken)
    /\ WalkEmitsMembers

\* a user group with two members answered in one page without any request
C25_Witness ==
    /\ last.op = "userGroupGrants"
    /\ Len(up.members) = 2
    /\ Len(last.res) = 2
    /\ Len(last.fetch) = 0
    /\ walk.status = "done"


-----------------------------------------------------------------------------
\* Revoke and the role the principal holds

PermissionRevoke ==
    /\ perms.call.op \in {"projectRevoke", "repositoryRevoke"}
    /\ perms.call.err = ""

RevokeStore ==
    IF perms.call.op = "projectRevoke"
    THEN IF perms.call.principal.type = resourceTypeUser THEN "pusers" ELSE "pgroups"
    ELSE IF perms.call.principal.type = resourceTypeUser THEN "rusers" ELSE "rgroups"

\* the role the principal of the call held before it, and the one it holds after
HeldBefore == perms.call.before[RevokeStore][GrantWho]
HeldAfter == perms.up[RevokeStore][GrantWho]

\* C26: a Revoke of a project or repository permission for role R removes the
\* upstream permission only when the principal holds R; a principal that holds
\* another role still holds it after the Revoke
C26_RevokeOnlyHeldRole ==
    PermissionRevoke =>
        /\ perms.up # perms.call.before => HeldBefore = SlugOf(perms.call.entitlement)
        /\ (HeldBefore # SlugOf(perms.call.entitlement) /\ HeldBefore # roleNone)
              => HeldAfter = HeldBefore


-----------------------------------------------------------------------------
\* The group a permission operation addresses upstream

\* a project or repository Grant / Revoke whose principal is the user group resource
\* as the connector lists it, id workspaceId:groupSlug
GroupPrincipalCall ==
    /\ perms.call.op \in {"projectGrant", "projectRevoke",
                          "repositoryGrant", "repositoryRevoke"}
    /\ perms.call.principal = ResourceId(resourceTypeUserGroup, TheGroupId)

\* C27: for a user group principal the project permission operations (lookup, set,
\* delete) address the upstream group by the slug component of its id alone, as the
\* repository operations do
C27_GroupAddressedBySlug ==
    GroupPrincipalCall =>
        \A i \in 1..Len(perms.call.calls) : perms.call.calls[i].who = GroupRec(1).Slug


-----------------------------------------------------------------------------
\* Termination of a Grants walk, and the depth of its cursor

\* upstream listings of every length up to MaxRecs; the roles play no part in how
\* long a walk is, so every record carries the same one
ReadGroupPermissions(n) == [i \in 1..n |-> [Value |-> roleRead, Group |-> GroupRec(i)]]
ReadUserPermissions(n) == [i \in 1..n |-> [Value |-> roleRead, User |-> UserRec(i)]]

WalkUps(op) ==
    IF op = "projectGrants"
    THEN {[BaseUp EXCEPT !.repos = Prefix(RepositoryRec, nr),
                         !.pgroups = ReadGroupPermissions(ng),
                         !.pusers = ReadUserPermissions(nu)] :
            nr \in 0..MaxRecs, ng \in 0..MaxRecs, nu \in 0..MaxRecs}
    ELSE {[BaseUp EXCEPT !.rgroups = ReadGroupPermissions(ng),
                         !.rusers = ReadUserPermissions(nu)] :
            ng \in 0..MaxRecs, nu \in 0..MaxRecs}

InitGrantsWalk ==
    /\ pageSize \in 1..MaxPageSize
    /\ \E op \in PhasedOps :
        /\ up \in WalkUps(op)
        /\ \E t \in Targets(op) : walk = IdleWalk(op, t)
    /\ allow = {}
    /\ scope = NoScope
    /\ workspaceIDs = {}
    /\ hist = {}
    /\ last = NoCall
    /\ perms = NoMutation
    /\ ids = NoIds
    /\ cfg = NoConfig

NextGrantsWalk ==
    \/ StartWalk
    \/ ProjectGrants
    \/ RepositoryGrants

\* a call of the walk that upstream does not fail
Advance == StepWith("projectGrants", FALSE) \/ StepWith("repositoryGrants", FALSE)

\* Advance is enabled exactly while the walk is running (a handler can always be
\* called, and a call that upstream answers changes the walk)
AdvanceEnabled == walk.status = "running"

\* weak fairness of Advance, WF_vars(Advance), with ENABLED <<Advance>>_vars written
\* out as AdvanceEnabled: the caller keeps calling while it holds a token, and
\* upstream does not fail forever
Fairness == []<>(~AdvanceEnabled) \/ []<><<Advance>>_vars

SpecGrantsWalk == InitGrantsWalk /\ [][NextGrantsWalk]_vars /\ Fairness

\* the number of phases of a Grants walk
Phases(op) == IF op = "projectGrants" THEN 3 ELSE 2

TokenDepth(t) == IF t.kind = "json" THEN BagDepth(t.bag) ELSE 0

\* the resource of the walk carries a well-formed id of its type
WalkTargetDecomposes ==
    walk.target.id = IF walk.op = "projectGrants" THEN TheProjectId ELSE TheRepositoryId

\* C28: a Grants walk of a project or repository reaches the empty token after
\* finitely many calls; its cursor never holds more frames than the walk has phases
\* (3 for a project, 2 for a repository); the first call expands the phases and
\* emits no grants, and no later call of the walk increases the number of frames
C28_GrantsWalkTerminates ==
    /\ [](walk.op \in PhasedOps =>
            /\ TokenDepth(walk.token) <= Phases(walk.op)
            /\ TokenDepth(last.next) <= Phases(walk.op))
    /\ []((last.op \in PhasedOps /\ last.token = EmptyToken /\ last.err = "") =>
            /\ Len(last.res) = 0
            /\ Len(last.fetch) = 0
            /\ TokenDepth(last.next) = Phases(last.op))
    /\ [][(walk.op \in PhasedOps /\ walk.token # EmptyToken) =>
            TokenDepth(walk'.token) <= TokenDepth(walk.token)]_vars
    /\ ((walk.status = "running" /\ WalkTargetDecomposes) ~> walk.status = "done")

\* a project walk that went through its three phases and ended
C28_Witness ==
    /\ walk.op = "projectGrants"
    /\ walk.status = "done"
    /\ walk.token = EmptyToken
    /\ walk.calls >= 4
    /\ Len(walk.out) > 0


-----------------------------------------------------------------------------
\* Workspace listing before and after Validate; Validate called again

\* no Validate has returned without error on this client: the scope is unset, or
\* the user scope is set and no workspace id was ever resolved (a successful
\* Validate of a user-scoped client leaves at least one)
NeverValidated ==
    \/ scope = NoScope
    \/ IsUserScoped(scope) /\ workspaceIDs = {}

\* C29: before the first successful Validate, ListResources(Workspace) returns an
\* error and no resources; on a client whose scope was never set the error is
\* "client is not workspace scoped"
C29_NoWorkspaceBeforeValidate ==
    (last.op = "workspaceList" /\ NeverValidated) =>
        /\ last.err # ""
        /\ Len(last.res) = 0
        /\ scope = NoScope => last.err = "not_workspace_scoped"

\* what one Validate computes on a client that holds no scope and no workspace id
FreshValidate == ValidateResult(NoScope, {}, allow, "")

\* C30: after any number of Validate calls on a user-scoped client, a Validate that
\* succeeds leaves the workspace ids a single Validate on a fresh client computes,
\* and a Validate that fails leaves no partially filled set behind: the workspace
\* ids are those held before the call
C30_ValidateRepeatable ==
    (last.op = "validate" /\ IsUserScoped(scope)) =>
        /\ last.err = "" => workspaceIDs = FreshValidate.ids
        /\ last.err # "" => workspaceIDs = last.before

====
